---------------------------- MODULE Spec2Model ----------------------------
(***************************************************************************)
(* Model of the analytical core of erev-range-copilot:                     *)
(*   evcopilot/model/vmt_bins.py        trip bins and the EV share         *)
(*   evcopilot/model/emissions_costs.py CO2 / cost calculator, scenarios   *)
(*   evcopilot/model/range_scenarios.py the range-scenario orchestrator    *)
(*                                                                         *)
(* The code computes in IEEE-754 floating point: every +, -, *, / rounds   *)
(* its exact result to the nearest representable number, ties to even.     *)
(* The model keeps that: a number is a significand m and an exponent e     *)
(* (value m * 10^e), and every operation rounds its exact result to Prec   *)
(* significant digits, ties to even.  The radix is 10 so that the decimal  *)
(* literals of the source (0.85, 1e-6, 12000) are the numbers the model    *)
(* computes with; Prec is a bound of the model.  The exponent is not       *)
(* bounded (no overflow or underflow to zero), zero has no sign, and the   *)
(* two special values the code can produce, inf and nan, are kept.         *)
(***************************************************************************)
EXTENDS Integers, Sequences, FiniteSets, TLC

\* Significant decimal digits kept by every arithmetic operation.
Prec == 3

---------------------------------------------------------------------------
\* Floating-point numbers

RECURSIVE Pow10(_)
Pow10(n) == IF n <= 0 THEN 1 ELSE 10 * Pow10(n - 1)

RECURSIVE NumDigits(_)
\* Number of decimal digits of n >= 0 (0 has none).
NumDigits(n) == IF n = 0 THEN 0 ELSE 1 + NumDigits(n \div 10)

Abs(n) == IF n < 0 THEN -n ELSE n

Sgn(n) == IF n < 0 THEN -1 ELSE IF n > 0 THEN 1 ELSE 0

RECURSIVE Canon(_, _)
\* The representation of m * 10^e: no trailing zero in m, and zero is (0, 0).
Canon(m, e) ==
    IF m = 0 THEN [k |-> "num", m |-> 0, e |-> 0]
    ELSE IF m % 10 = 0 THEN Canon(m \div 10, e + 1)
    ELSE [k |-> "num", m |-> m, e |-> e]

\* Special values: float("inf"), -inf and nan.
PosInf == [k |-> "inf", m |-> 1, e |-> 0]
NegInf == [k |-> "inf", m |-> -1, e |-> 0]
NaN == [k |-> "nan", m |-> 0, e |-> 0]

\* The literal m * 10^e of the source.
D(m, e) == Canon(m, e)
Zero == D(0, 0)
One == D(1, 0)

IsNum(x) == x.k = "num"
IsNaN(x) == x.k = "nan"
IsInf(x) == x.k = "inf"
IsZero(x) == x.k = "num" /\ x.m = 0
\* Position of the leading digit of a nonzero number: 10^Top <= |x| < 10^(Top+1).
Top(x) == x.e + NumDigits(Abs(x.m)) - 1

\* Round sign * n * 10^e (n >= 0 an integer; sticky: the exact value lies
\* strictly above n * 10^e in magnitude, by less than one unit of n) to Prec
\* significant digits, to nearest, ties to even.
RoundTo(sign, n, sticky, e) ==
    LET nd == NumDigits(n)
    IN  IF nd <= Prec
        THEN Canon(sign * n, e)
        ELSE LET d == nd - Prec
                 pw == Pow10(d)
                 hi == n \div pw
                 lo == n % pw
                 up == \/ 2 * lo > pw
                       \/ 2 * lo = pw /\ (sticky \/ hi % 2 = 1)
             IN  Canon(sign * (IF up THEN hi + 1 ELSE hi), e + d)

\* -x
FNeg(x) ==
    IF IsNaN(x) THEN NaN ELSE [x EXCEPT !.m = -x.m]

\* x * y
FMul(x, y) ==
    IF IsNaN(x) \/ IsNaN(y) THEN NaN
    ELSE IF IsInf(x) \/ IsInf(y)
    THEN IF IsZero(x) \/ IsZero(y) THEN NaN
         ELSE IF Sgn(x.m) * Sgn(y.m) > 0 THEN PosInf ELSE NegInf
    ELSE RoundTo(Sgn(x.m) * Sgn(y.m), Abs(x.m) * Abs(y.m), FALSE, x.e + y.e)

\* x + y
FAdd(x, y) ==
    IF IsNaN(x) \/ IsNaN(y) THEN NaN
    ELSE IF IsInf(x) /\ IsInf(y) THEN (IF x.m = y.m THEN x ELSE NaN)
    ELSE IF IsInf(x) THEN x
    ELSE IF IsInf(y) THEN y
    ELSE IF IsZero(x) THEN RoundTo(Sgn(y.m), Abs(y.m), FALSE, y.e)
    ELSE IF IsZero(y) THEN RoundTo(Sgn(x.m), Abs(x.m), FALSE, x.e)
    ELSE IF Top(x) - Top(y) >= Prec + 2 THEN x
    ELSE IF Top(y) - Top(x) >= Prec + 2 THEN y
    ELSE LET e == IF x.e < y.e THEN x.e ELSE y.e
             n == x.m * Pow10(x.e - e) + y.m * Pow10(y.e - e)
         IN  RoundTo(Sgn(n), Abs(n), FALSE, e)

\* x - y
FSub(x, y) == FAdd(x, FNeg(y))

\* Sign of x - y for two finite numbers, exact (no rounding).
CmpNum(x, y) ==
    IF Sgn(x.m) # Sgn(y.m) THEN Sgn(Sgn(x.m) - Sgn(y.m))
    ELSE IF x.m = 0 THEN 0
    ELSE IF Top(x) # Top(y) THEN Sgn(x.m) * Sgn(Top(x) - Top(y))
    ELSE LET e == IF x.e < y.e THEN x.e ELSE y.e
         IN  Sgn(x.m * Pow10(x.e - e) - y.m * Pow10(y.e - e))

\* Sign of x - y; inf is beyond every number.  Not defined on nan.
Cmp(x, y) ==
    IF IsInf(x) /\ IsInf(y) THEN Sgn(x.m - y.m)
    ELSE IF IsInf(x) THEN x.m
    ELSE IF IsInf(y) THEN -y.m
    ELSE CmpNum(x, y)

\* x < y, x <= y, x > y, x == y: every comparison with nan is false.
FLt(x, y) == ~IsNaN(x) /\ ~IsNaN(y) /\ Cmp(x, y) < 0
FLe(x, y) == ~IsNaN(x) /\ ~IsNaN(y) /\ Cmp(x, y) <= 0
FGt(x, y) == FLt(y, x)
FEq(x, y) == ~IsNaN(x) /\ ~IsNaN(y) /\ Cmp(x, y) = 0

\* The quotient of two nonzero finite numbers, rounded.
DivNum(x, y) ==
    LET sh == Prec - NumDigits(Abs(x.m))
        num == Abs(x.m) * Pow10(sh + Prec + 1)
        q == num \div Abs(y.m)
        r == num % Abs(y.m)
    IN  RoundTo(Sgn(x.m) * Sgn(y.m), q, r # 0, x.e - sh - (Prec + 1) - y.e)

\* x / y on numpy arrays (np.errstate ignore): division by zero gives inf
\* or nan and does not raise.
NpDiv(x, y) ==
    IF IsNaN(x) \/ IsNaN(y) THEN NaN
    ELSE IF IsInf(x) THEN (IF IsInf(y) THEN NaN
                           ELSE IF x.m * (IF y.m < 0 THEN -1 ELSE 1) > 0
                           THEN PosInf ELSE NegInf)
    ELSE IF IsInf(y) THEN Zero
    ELSE IF IsZero(y) THEN (IF IsZero(x) THEN NaN
                            ELSE IF x.m > 0 THEN PosInf ELSE NegInf)
    ELSE IF IsZero(x) THEN Zero
    ELSE DivNum(x, y)

\* np.maximum / np.minimum: nan propagates.
NpMaximum(x, y) ==
    IF IsNaN(x) \/ IsNaN(y) THEN NaN ELSE IF Cmp(x, y) >= 0 THEN x ELSE y
NpMinimum(x, y) ==
    IF IsNaN(x) \/ IsNaN(y) THEN NaN ELSE IF Cmp(x, y) <= 0 THEN x ELSE y

\* Python's builtin max(x, y) / min(x, y): the first argument is kept unless
\* the second compares strictly greater / smaller (so a nan second argument
\* is never chosen and a nan first argument is kept by min).
PyMax(x, y) == IF FGt(y, x) THEN y ELSE x
PyMin(x, y) == IF FLt(y, x) THEN y ELSE x

\* What a Python float division x / y raises on a zero divisor.
ZeroDivisionError == [k |-> "ZeroDivisionError", m |-> 0, e |-> 0]

\* x / y on Python floats.
PyDiv(x, y) ==
    IF IsNum(y) /\ IsZero(y) THEN ZeroDivisionError ELSE NpDiv(x, y)

\* abs(x)
FAbs(x) == IF IsNaN(x) THEN NaN ELSE [x EXCEPT !.m = Abs(x.m)]

RECURSIVE SumFrom(_, _)
\* Left-to-right accumulation acc + s[1] + s[2] + ..., each step rounded
\* (Python's sum() starts from 0, ndarray.sum() of an empty array is 0.0).
SumFrom(acc, s) ==
    IF s = <<>> THEN acc ELSE SumFrom(FAdd(acc, Head(s)), Tail(s))

FSum(s) == SumFrom(Zero, s)

\* Python's None.
None == [k |-> "None", m |-> 0, e |-> 0]

\* A local variable: body evaluated with v bound to the value of x (an
\* assignment v = x followed by the statements of body).
With(x, body(_)) == body(x)

\* An optional list argument: None, or the list given.
NoBins == [given |-> FALSE, list |-> << >>]
Bins(list) == [given |-> TRUE, list |-> list]

---------------------------------------------------------------------------
\* evcopilot/model/vmt_bins.py

TripBin(lower, upper, share_of_trips) ==
    [lower |-> lower, upper |-> upper, share_of_trips |-> share_of_trips]

\* Mutant of midpoint: the open-ended bin represented by twice its lower bound.
midpoint_tail_doubled(b) ==
    IF b.upper = None
    THEN FMul(b.lower, D(2, 0))
    ELSE FMul(D(5, -1), FAdd(b.lower, b.upper))

\* TripBin.midpoint
midpoint(b) ==
    IF b.upper = None
    THEN FMul(b.lower, D(12, -1))
    ELSE FMul(D(5, -1), FAdd(b.lower, b.upper))

\* The table of default_trip_bins, before the normalisation check.
default_table ==
    << TripBin(D(0, 0), D(1, 0), D(20, -2)),
       TripBin(D(1, 0), D(3, 0), D(25, -2)),
       TripBin(D(3, 0), D(5, 0), D(15, -2)),
       TripBin(D(5, 0), D(10, 0), D(15, -2)),
       TripBin(D(10, 0), D(20, 0), D(10, -2)),
       TripBin(D(20, 0), D(30, 0), D(6, -2)),
       TripBin(D(30, 0), D(50, 0), D(4, -2)),
       TripBin(D(50, 0), D(100, 0), D(3, -2)),
       TripBin(D(100, 0), None, D(2, -2)) >>

\* sum(b.share_of_trips for b in bins)
total_share_of(bins) ==
    FSum([i \in 1..Len(bins) |-> bins[i].share_of_trips])

\* np.isclose(a, b, atol=atol): |a - b| <= atol + rtol * |b|, rtol = 1e-5.
np_isclose(a, b, atol) ==
    FLe(FAbs(FSub(a, b)), FAdd(atol, FMul(D(1, -5), FAbs(b))))

\* The bins with every share divided by total (b.share_of_trips /= total).
normalise(bins, total) ==
    [i \in 1..Len(bins) |->
        [bins[i] EXCEPT !.share_of_trips = PyDiv(bins[i].share_of_trips, total)]]

\* The normalisation step of default_trip_bins: shares divided by their sum
\* unless the sum is close to 1.
normalised_unless_close(table) ==
    With(total_share_of(table), LAMBDA total_share :
        IF ~np_isclose(total_share, One, D(1, -6))
        THEN normalise(table, total_share)
        ELSE table)

\* Mutant of default_trip_bins: the open-ended 100+ bin left out of the table.
default_trip_bins_no_tail ==
    normalised_unless_close(SubSeq(default_table, 1, Len(default_table) - 1))

default_trip_bins == normalised_unless_close(default_table)

\* compute_vmt_shares: the VMT share and the representative distance of each bin.
\* Mutant of compute_vmt_shares: raw_vmt returned without the division by
\* total_vmt.
compute_vmt_shares_raw(bins) ==
    With([i \in 1..Len(bins) |-> midpoint(bins[i])], LAMBDA distances :
        [vmt_shares |-> [i \in 1..Len(bins) |->
                            FMul(bins[i].share_of_trips, distances[i])],
         distances |-> distances])

compute_vmt_shares(bins) ==
    With([i \in 1..Len(bins) |-> midpoint(bins[i])], LAMBDA distances :
    With([i \in 1..Len(bins) |-> FMul(bins[i].share_of_trips, distances[i])],
         LAMBDA raw_vmt :
    With(FSum(raw_vmt), LAMBDA total_vmt :
        [vmt_shares |-> [i \in 1..Len(bins) |-> NpDiv(raw_vmt[i], total_vmt)],
         distances |-> distances])))

\* Mutant of frac_electric: the ratio inverted (distance over range).
frac_electric_inverted(range_miles, d) ==
    NpMinimum(One, NpDiv(NpMaximum(d, D(1, -6)), range_miles))

\* Mutant of frac_electric: the 1e-6 floor applied to the range as well.
frac_electric_floor_both(range_miles, d) ==
    NpMinimum(One, NpDiv(NpMaximum(range_miles, D(1, -6)), NpMaximum(d, D(1, -6))))

\* Mutant of frac_electric: the division done without the 1e-6 floor.
frac_electric_no_floor(range_miles, d) ==
    NpMinimum(One, NpDiv(range_miles, d))

\* frac_electric_per_bin = np.minimum(1.0, range_miles / np.maximum(distances, 1e-6))
frac_electric(range_miles, d) ==
    NpMinimum(One, NpDiv(range_miles, NpMaximum(d, D(1, -6))))

\* np.dot(a, b) of two vectors of the same length.
np_dot(a, b) == FSum([i \in 1..Len(a) |-> FMul(a[i], b[i])])

\* Mutant of clamp01: the clamp left out.
clamp01_missing(x) == x

\* ev_share = max(0.0, min(ev_share, 1.0))
clamp01(x) == PyMax(Zero, PyMin(x, One))

\* compute_ev_share_for_range with its local variables: the bins used, the
\* per-bin vectors, the dot product and the clamped result.
ev_share_locals(range_miles, bins) ==
    With(IF bins = NoBins THEN default_trip_bins ELSE bins.list, LAMBDA used :
    With(compute_vmt_shares(used), LAMBDA vd :
    With([i \in 1..Len(used) |-> frac_electric(range_miles, vd.distances[i])],
         LAMBDA frac :
    With(np_dot(vd.vmt_shares, frac), LAMBDA dot :
        [range_miles |-> range_miles, bins |-> used,
         vmt_shares |-> vd.vmt_shares, distances |-> vd.distances,
         frac_electric_per_bin |-> frac, dot |-> dot,
         ev_share |-> clamp01(dot)]))))

compute_ev_share_for_range(range_miles, bins) ==
    ev_share_locals(range_miles, bins).ev_share

---------------------------------------------------------------------------
\* evcopilot/model/emissions_costs.py

ScenarioParams(name, grid_co2, gas_co2, ev_kwh, gas_litre, batt_kwh, batt_cost, elec_price, gas_price) ==
    [name |-> name,
     grid_co2_kg_per_kwh |-> grid_co2,
     gas_co2_kg_per_litre |-> gas_co2,
     ev_kwh_per_mile |-> ev_kwh,
     gas_litre_per_mile |-> gas_litre,
     battery_kwh_per_mile_range |-> batt_kwh,
     battery_cost_usd_per_kwh |-> batt_cost,
     electricity_price_usd_per_kwh |-> elec_price,
     gas_price_usd_per_litre |-> gas_price]

\* Mutant of total_vmt_of: the baseline taken over the default annual VMT
\* (12000) instead of the miles of the call.
total_vmt_default_annual(ev_vmt, gas_vmt) == D(12, 3)

\* total_vmt = ev_vmt + gas_vmt
total_vmt_of(ev_vmt, gas_vmt) == FAdd(ev_vmt, gas_vmt)

\* Mutant of capex_per_ton_of: zero instead of the infinity sentinel.
capex_per_ton_zero_sentinel(battery_capex_usd, co2_savings_tons) ==
    IF FGt(co2_savings_tons, Zero)
    THEN PyDiv(battery_capex_usd, co2_savings_tons)
    ELSE Zero

\* Mutant of capex_per_ton_of: the CAPEX spread over a 10-year battery life,
\* as the paper-replication path does.
capex_per_ton_amortized(battery_capex_usd, co2_savings_tons) ==
    IF FGt(co2_savings_tons, Zero)
    THEN PyDiv(PyDiv(battery_capex_usd, D(10, 0)), co2_savings_tons)
    ELSE PosInf

\* CAPEX per ton CO2 saved: the quotient when the savings are positive, else
\* float("inf").
capex_per_ton_of(battery_capex_usd, co2_savings_tons) ==
    IF FGt(co2_savings_tons, Zero)
    THEN PyDiv(battery_capex_usd, co2_savings_tons)
    ELSE PosInf

\* Mutant of co2_savings_of: savings floored at zero.
co2_savings_clamped(co2_baseline_tons, co2_ev_tons, co2_gas_tons) ==
    PyMax(Zero, FSub(co2_baseline_tons, FAdd(co2_ev_tons, co2_gas_tons)))

\* co2_savings_tons = co2_baseline_tons - (co2_ev_tons + co2_gas_tons)
\* Mutant of co2_savings_of: the gasoline miles' emissions left out of the
\* subtraction.
co2_savings_without_gas(co2_baseline_tons, co2_ev_tons, co2_gas_tons) ==
    FSub(co2_baseline_tons, co2_ev_tons)

co2_savings_of(co2_baseline_tons, co2_ev_tons, co2_gas_tons) ==
    FSub(co2_baseline_tons, FAdd(co2_ev_tons, co2_gas_tons))

\* compute_emissions_and_costs: the EmissionsCostResult.
compute_emissions_and_costs(range_miles, ev_vmt, gas_vmt, params) ==
    LET total_vmt == total_vmt_of(ev_vmt, gas_vmt)
        battery_kwh == FMul(params.battery_kwh_per_mile_range, range_miles)
        battery_capex_usd == FMul(battery_kwh, params.battery_cost_usd_per_kwh)
        ev_kwh == FMul(ev_vmt, params.ev_kwh_per_mile)
        gas_litres == FMul(gas_vmt, params.gas_litre_per_mile)
        baseline_litres == FMul(total_vmt, params.gas_litre_per_mile)
        co2_ev_kg == FMul(ev_kwh, params.grid_co2_kg_per_kwh)
        co2_gas_kg == FMul(gas_litres, params.gas_co2_kg_per_litre)
        co2_baseline_kg == FMul(baseline_litres, params.gas_co2_kg_per_litre)
        co2_ev_tons == PyDiv(co2_ev_kg, D(1000, 0))
        co2_gas_tons == PyDiv(co2_gas_kg, D(1000, 0))
        co2_baseline_tons == PyDiv(co2_baseline_kg, D(1000, 0))
        co2_savings_tons ==
            co2_savings_of(co2_baseline_tons, co2_ev_tons, co2_gas_tons)
        ev_energy_cost_usd == FMul(ev_kwh, params.electricity_price_usd_per_kwh)
        gas_fuel_cost_usd == FMul(gas_litres, params.gas_price_usd_per_litre)
        baseline_fuel_cost_usd == FMul(baseline_litres, params.gas_price_usd_per_litre)
    IN  [co2_ev_tons |-> co2_ev_tons,
         co2_gas_tons |-> co2_gas_tons,
         co2_baseline_tons |-> co2_baseline_tons,
         co2_savings_tons |-> co2_savings_tons,
         battery_capex_usd |-> battery_capex_usd,
         capex_per_ton_usd |-> capex_per_ton_of(battery_capex_usd, co2_savings_tons),
         ev_energy_cost_usd |-> ev_energy_cost_usd,
         gas_fuel_cost_usd |-> gas_fuel_cost_usd,
         baseline_fuel_cost_usd |-> baseline_fuel_cost_usd,
         net_operating_savings_usd |->
             FSub(baseline_fuel_cost_usd,
                  FAdd(ev_energy_cost_usd, gas_fuel_cost_usd))]

\* The scenario configuration file as the loader finds it: missing, without
\* the top-level 'scenarios' key, or holding a mapping name -> ScenarioParams.
ConfigMissing == [kind |-> "missing", scenarios |-> << >>]
ConfigNoKey == [kind |-> "no_scenarios_key", scenarios |-> << >>]
Config(scenarios) == [kind |-> "ok", scenarios |-> scenarios]

\* An outcome of a call: a returned value, or a raised exception.
Return(value) == [raised |-> "", value |-> value]
Raise(exception, value) == [raised |-> exception, value |-> value]

\* evcopilot/data/scenario_config.py: load_scenario_params_from_yaml
load_scenario_params_from_yaml(config) ==
    IF config.kind = "missing" THEN Raise("FileNotFoundError", << >>)
    ELSE IF config.kind = "no_scenarios_key" THEN Raise("ValueError", << >>)
    ELSE Return(config.scenarios)

\* The value of _SCENARIOS_CACHE before the first successful load: None,
\* which no loaded mapping equals (the empty mapping included).
CacheUnset == None

\* Mutant of load_scenarios_if_needed: the loader called on every use, the
\* cache overwritten each time.
load_scenarios_every_time(cache, config) ==
    With(load_scenario_params_from_yaml(config), LAMBDA loaded :
        IF loaded.raised # ""
        THEN [out |-> loaded, cache |-> cache, loader_calls |-> 1]
        ELSE [out |-> loaded, cache |-> loaded.value, loader_calls |-> 1])

\* Mutant of load_scenarios_if_needed: a load that raises leaves an empty
\* mapping in the cache.
load_scenarios_caching_failure(cache, config) ==
    IF cache = CacheUnset
    THEN With(load_scenario_params_from_yaml(config), LAMBDA loaded :
             IF loaded.raised # ""
             THEN [out |-> loaded, cache |-> [n \in {} |-> None],
                   loader_calls |-> 1]
             ELSE [out |-> loaded, cache |-> loaded.value, loader_calls |-> 1])
    ELSE [out |-> Return(cache), cache |-> cache, loader_calls |-> 0]

\* _load_scenarios_if_needed: the outcome, the cache it leaves and the
\* number of times it called the loader.  A load that raises leaves the
\* cache unset.
load_scenarios_if_needed(cache, config) ==
    IF cache = CacheUnset
    THEN With(load_scenario_params_from_yaml(config), LAMBDA loaded :
             IF loaded.raised # ""
             THEN [out |-> loaded, cache |-> cache, loader_calls |-> 1]
             ELSE [out |-> loaded, cache |-> loaded.value, loader_calls |-> 1])
    ELSE [out |-> Return(cache), cache |-> cache, loader_calls |-> 0]

\* Mutant of after_cache_test: the loader called whatever the cache holds.
after_cache_test_always_load(cache) == "load"

\* The branch of _load_scenarios_if_needed: 'if _SCENARIOS_CACHE is None'
\* leads to the load, anything else to 'return _SCENARIOS_CACHE'.
after_cache_test(cache) == IF cache = CacheUnset THEN "load" ELSE "return"

\* Mutant of scenario_lookup: an unknown name answered with the Average
\* scenario when there is one.
scenario_lookup_default_average(name, scenarios) ==
    IF name \in DOMAIN scenarios THEN Return(scenarios[name])
    ELSE IF "Average" \in DOMAIN scenarios THEN Return(scenarios["Average"])
    ELSE Raise("KeyError", DOMAIN scenarios)

\* The lookup of get_scenario_params: scenarios[name], or KeyError whose
\* message lists the names of scenarios.
scenario_lookup(name, scenarios) ==
    IF name \notin DOMAIN scenarios
    THEN Raise("KeyError", DOMAIN scenarios)
    ELSE Return(scenarios[name])

\* Mutant of get_scenario_params: scenarios.pop(name) in place of
\* scenarios[name], the entry handed out leaving the cached mapping.
get_scenario_params_popping(name, cache, config) ==
    With(load_scenarios_if_needed(cache, config), LAMBDA l :
        IF l.out.raised # "" THEN l
        ELSE [out |-> scenario_lookup(name, l.out.value),
              cache |-> [n \in DOMAIN l.out.value \ { name } |-> l.out.value[n]],
              loader_calls |-> l.loader_calls])

\* Mutant of get_scenario_params: the cache reset to None when the name is
\* unknown.
get_scenario_params_forgetting(name, cache, config) ==
    With(load_scenarios_if_needed(cache, config), LAMBDA l :
        IF l.out.raised # "" THEN l
        ELSE [out |-> scenario_lookup(name, l.out.value),
              cache |-> IF name \in DOMAIN l.out.value THEN l.cache
                        ELSE CacheUnset,
              loader_calls |-> l.loader_calls])

\* get_scenario_params: the params stored under name, or KeyError naming the
\* valid names; the loader's exception passes through.
get_scenario_params(name, cache, config) ==
    With(load_scenarios_if_needed(cache, config), LAMBDA l :
        IF l.out.raised # "" THEN l
        ELSE [out |-> scenario_lookup(name, l.out.value), cache |-> l.cache,
              loader_calls |-> l.loader_calls])

---------------------------------------------------------------------------
\* evcopilot/model/range_scenarios.py

\* Mutant of charging_frequency_multiplier: five charges a week scaled down
\* like the sparser schedules.
charging_frequency_multiplier_five_low(charges_per_week) ==
    CASE charges_per_week = 2 -> D(85, -2)
      [] charges_per_week = 3 -> D(90, -2)
      [] charges_per_week = 5 -> D(95, -2)
      [] charges_per_week = 7 -> D(105, -2)
      [] OTHER -> D(1, 0)

\* _charging_frequency_multiplier: {2: 0.85, 3: 0.90, 5: 1.00, 7: 1.05},
\* 1.0 for any other value.
charging_frequency_multiplier(charges_per_week) ==
    CASE charges_per_week = 2 -> D(85, -2)
      [] charges_per_week = 3 -> D(90, -2)
      [] charges_per_week = 5 -> D(100, -2)
      [] charges_per_week = 7 -> D(105, -2)
      [] OTHER -> D(1, 0)

\* Mutant of gas_vmt_of: the gasoline miles taken from the share left over.
gas_vmt_from_share(annual_vmt, ev_share, ev_vmt) ==
    FMul(FSub(One, ev_share), annual_vmt)

\* gas_vmt = annual_vmt - ev_vmt
gas_vmt_of(annual_vmt, ev_share, ev_vmt) == FSub(annual_vmt, ev_vmt)

\* compute_range_scenario: its local variables, its outcome (the
\* RangeScenarioResult, or the exception of the scenario lookup) and the
\* scenario cache it leaves.
compute_range_scenario(range_miles, charges_per_week, scenario_name, annual_vmt, cache, config) ==
    With(compute_ev_share_for_range(range_miles, NoBins), LAMBDA base_ev_share :
    With(charging_frequency_multiplier(charges_per_week), LAMBDA mult :
    With(clamp01(FMul(base_ev_share, mult)), LAMBDA ev_share :
    With(FMul(ev_share, annual_vmt), LAMBDA ev_vmt :
    With(gas_vmt_of(annual_vmt, ev_share, ev_vmt), LAMBDA gas_vmt :
    With(get_scenario_params(scenario_name, cache, config), LAMBDA looked :
    With([base_ev_share |-> base_ev_share, mult |-> mult], LAMBDA locals :
        IF looked.out.raised # ""
        THEN [locals |-> locals, out |-> looked.out, cache |-> looked.cache,
              loader_calls |-> looked.loader_calls]
        ELSE With(compute_emissions_and_costs(range_miles, ev_vmt, gas_vmt,
                                              looked.out.value),
                  LAMBDA emissions_costs :
             [locals |-> locals,
              out |-> Return([range_miles |-> range_miles,
                              charges_per_week |-> charges_per_week,
                              scenario_name |-> scenario_name,
                              ev_share |-> ev_share,
                              ev_vmt |-> ev_vmt,
                              gas_vmt |-> gas_vmt,
                              co2_savings_tons |-> emissions_costs.co2_savings_tons,
                              capex_per_ton_usd |-> emissions_costs.capex_per_ton_usd]),
              cache |-> looked.cache,
              loader_calls |-> looked.loader_calls]))))))))

---------------------------------------------------------------------------
\* evcopilot/model/erev_calculations.py

\* A numeric literal or an int used in float arithmetic: m * 10^e (m >= 0)
\* converted to the float format.
Lit(m, e) == RoundTo(1, m, FALSE, e)

\* fetch_vm1_ldv_total_vmt_miles(2023) returns the paper's constant.
VMT_TOTAL == Lit(32628, 8)
VMT_PER_VEH == Lit(11408, 0)
ETA_EV == Lit(36, -1)
MPG == Lit(264, -1)
G_CO2_GRID == Lit(348, 0)
CBAT == Lit(115, 0)
BATTERY_LIFE_YRS == Lit(10, 0)
GGAS == PyDiv(Lit(8887, 0), MPG)
GEV == FMul(PyDiv(One, ETA_EV), G_CO2_GRID)

\* EV_SHARE_BASE = {25: 0.55, 50: 0.733, 75: 0.79, 100: 0.84, 125: 0.86,
\* 150: 0.868}: the keys in ascending order and their values.
EV_SHARE_BASE_keys ==
    << Lit(25, 0), Lit(50, 0), Lit(75, 0), Lit(100, 0), Lit(125, 0), Lit(150, 0) >>
EV_SHARE_BASE_vals ==
    << Lit(55, -2), Lit(733, -3), Lit(79, -2), Lit(84, -2), Lit(86, -2),
       Lit(868, -3) >>

\* SCENARIOS: the multipliers of each scenario name.
SCENARIOS ==
    [n \in {"Worst", "Average", "Best"} |->
        CASE n = "Worst" -> [grid_mult |-> Lit(12, -1), cost_mult |-> Lit(13, -1)]
          [] n = "Average" -> [grid_mult |-> Lit(1, 0), cost_mult |-> Lit(1, 0)]
          [] OTHER -> [grid_mult |-> Lit(7, -1), cost_mult |-> Lit(8, -1)]]

compute_fleet_size == PyDiv(VMT_TOTAL, VMT_PER_VEH)

compute_battery_size(range_mi) == PyDiv(range_mi, ETA_EV)

compute_installed_capacity_twh(n_veh, range_mi) ==
    PyDiv(FMul(n_veh, compute_battery_size(range_mi)), Lit(1, 9))

\* np.interp(x, xp, fp) for ascending xp: fp at the ends outside the table,
\* slope * (x - xp[j]) + fp[j] on the interval [xp[j], xp[j+1]) that holds x.
\* Mutant of np_interp: the end segments extended outside the table
\* instead of the end values.
np_interp_extrapolating(x, xp, fp) ==
    IF IsNaN(x) THEN NaN
    ELSE With(IF FLt(x, xp[1]) THEN 1
              ELSE IF FLe(xp[Len(xp)], x) THEN Len(xp) - 1
              ELSE CHOOSE j \in 1..(Len(xp) - 1) : FLe(xp[j], x) /\ FLt(x, xp[j + 1]),
              LAMBDA j :
                  FAdd(FMul(NpDiv(FSub(fp[j + 1], fp[j]), FSub(xp[j + 1], xp[j])),
                            FSub(x, xp[j])),
                       fp[j]))

np_interp(x, xp, fp) ==
    IF IsNaN(x) THEN NaN
    ELSE IF FLt(x, xp[1]) THEN fp[1]
    ELSE IF FLe(xp[Len(xp)], x) THEN fp[Len(fp)]
    ELSE With(CHOOSE j \in 1..(Len(xp) - 1) : FLe(xp[j], x) /\ FLt(x, xp[j + 1]),
              LAMBDA j :
                  FAdd(FMul(NpDiv(FSub(fp[j + 1], fp[j]), FSub(xp[j + 1], xp[j])),
                            FSub(x, xp[j])),
                       fp[j]))

\* Mutant of compute_ev_vmt_share: the share taken from the trip-bin model.
compute_ev_vmt_share_from_trip_bins(range_mi) ==
    compute_ev_share_for_range(range_mi, NoBins)

\* compute_ev_vmt_share: the table value for a range that is a key of
\* EV_SHARE_BASE, the interpolation between the table points otherwise.
compute_ev_vmt_share(range_mi) ==
    IF \E j \in 1..Len(EV_SHARE_BASE_keys) : FEq(EV_SHARE_BASE_keys[j], range_mi)
    THEN EV_SHARE_BASE_vals[CHOOSE j \in 1..Len(EV_SHARE_BASE_keys) :
                                FEq(EV_SHARE_BASE_keys[j], range_mi)]
    ELSE np_interp(range_mi, EV_SHARE_BASE_keys, EV_SHARE_BASE_vals)

\* compute_emissions(ev_vmt, gas_vmt) with the default ggas and gev.
compute_emissions(ev_vmt, gas_vmt) ==
    With(PyDiv(FMul(GEV, ev_vmt), Lit(1, 6)), LAMBDA ev_tons :
    With(PyDiv(FMul(GGAS, gas_vmt), Lit(1, 6)), LAMBDA gas_tons :
        [ev_tons |-> ev_tons, gas_tons |-> gas_tons,
         saved |-> FSub(gas_tons, ev_tons)]))

\* Mutant of capex_per_ton_erev: the fleet CAPEX not spread over the
\* battery life.
capex_per_ton_erev_one_shot(cfleet, co2_saved_tons) ==
    PyDiv(cfleet, co2_saved_tons)

\* capex_per_ton = (cfleet / BATTERY_LIFE_YRS) / co2_saved_tons
capex_per_ton_erev(cfleet, co2_saved_tons) ==
    PyDiv(PyDiv(cfleet, BATTERY_LIFE_YRS), co2_saved_tons)

\* The float results of a list of operations, or the first exception among
\* them.
FirstRaised(values) ==
    IF \E i \in 1..Len(values) : values[i].k = "ZeroDivisionError"
    THEN Raise("ZeroDivisionError", << >>)
    ELSE Return(values)

\* compute_costs: the cost metrics of one (range, scenario) combination;
\* KeyError for a scenario that SCENARIOS does not hold, ZeroDivisionError
\* for a zero divisor.  gev_eff is computed and not used.
compute_costs(range_mi, ev_vmt, co2_saved_tons, scenario) ==
    IF scenario \notin DOMAIN SCENARIOS THEN Raise("KeyError", scenario)
    ELSE
    With(FMul(CBAT, SCENARIOS[scenario].cost_mult), LAMBDA cbat_eff :
    With(FMul(GEV, SCENARIOS[scenario].grid_mult), LAMBDA gev_eff :
    With(FMul(FMul(compute_fleet_size, compute_battery_size(range_mi)), cbat_eff),
         LAMBDA cfleet :
    With(FirstRaised(<< PyDiv(cfleet, ev_vmt),
                        capex_per_ton_erev(cfleet, co2_saved_tons) >>),
         LAMBDA metrics :
        IF metrics.raised # "" THEN metrics
        ELSE Return([Cfleet_USD |-> cfleet,
                     usd_per_EV_mile |-> metrics.value[1],
                     usd_per_tCO2 |-> metrics.value[2]])))))

\* The body of the loop of run_erev_analysis for one scenario and one
\* range: the row appended, or the exception of compute_costs.
erev_row(sc, r) ==
    With(compute_ev_vmt_share(r), LAMBDA share :
    With(FMul(VMT_TOTAL, share), LAMBDA ev_vmt :
    With(FSub(VMT_TOTAL, ev_vmt), LAMBDA gas_vmt :
    With(compute_emissions(ev_vmt, gas_vmt), LAMBDA em :
    With(compute_costs(r, ev_vmt, em.saved, sc), LAMBDA cost_metrics :
        IF cost_metrics.raised # "" THEN cost_metrics
        ELSE Return([Scenario |-> sc,
                     Range_mi |-> r,
                     EV_share |-> share,
                     EV_VMT |-> ev_vmt,
                     Gas_VMT |-> gas_vmt,
                     Installed_TWh |->
                         compute_installed_capacity_twh(compute_fleet_size, r),
                     CO2_saved_tons |-> em.saved,
                     Cfleet_USD |-> cost_metrics.value.Cfleet_USD,
                     usd_per_EV_mile |-> cost_metrics.value.usd_per_EV_mile,
                     usd_per_tCO2 |-> cost_metrics.value.usd_per_tCO2]))))))

\* The columns added to the DataFrame after the loop.
with_derived_columns(row) ==
    [Scenario |-> row.Scenario,
     Range_mi |-> row.Range_mi,
     EV_share |-> row.EV_share,
     EV_VMT |-> row.EV_VMT,
     Gas_VMT |-> row.Gas_VMT,
     Installed_TWh |-> row.Installed_TWh,
     CO2_saved_tons |-> row.CO2_saved_tons,
     Cfleet_USD |-> row.Cfleet_USD,
     usd_per_EV_mile |-> row.usd_per_EV_mile,
     usd_per_tCO2 |-> row.usd_per_tCO2,
     CO2_saved_Mt |-> NpDiv(row.CO2_saved_tons, Lit(1, 6)),
     usd_per_EV_mile_col |-> row.usd_per_EV_mile,
     usd_per_ton_CO2_col |-> row.usd_per_tCO2]

\* The default arguments of run_erev_analysis.
default_ranges == EV_SHARE_BASE_keys
default_scenarios == << "Worst", "Average", "Best" >>

\* run_erev_analysis(ranges, scenarios, save_csv): the DataFrame returned
\* (its rows in order) and the CSV file left behind, or the exception
\* raised.  The loop runs scenario by scenario, then range by range; the
\* first exception of a row ends the call.  A DataFrame built from no rows
\* has no columns, so df["CO2_saved_tons"] raises KeyError.
run_erev_analysis(ranges, scenarios, save_csv, csv) ==
    With(IF ranges = NoBins THEN default_ranges ELSE ranges.list, LAMBDA rs :
    With(IF scenarios = NoBins THEN default_scenarios ELSE scenarios.list,
         LAMBDA scs :
    With([i \in 1..(Len(scs) * Len(rs)) |->
             erev_row(scs[((i - 1) \div Len(rs)) + 1], rs[((i - 1) % Len(rs)) + 1])],
         LAMBDA results :
        IF \E i \in 1..Len(results) : results[i].raised # ""
        THEN [out |-> results[CHOOSE i \in 1..Len(results) :
                                 /\ results[i].raised # ""
                                 /\ \A j \in 1..(i - 1) : results[j].raised = ""],
              csv |-> csv]
        ELSE IF Len(results) = 0
        THEN [out |-> Raise("KeyError", "CO2_saved_tons"), csv |-> csv]
        ELSE With([i \in 1..Len(results) |-> with_derived_columns(results[i].value)],
                  LAMBDA df :
                 [out |-> Return(df),
                  csv |-> IF save_csv THEN [exists |-> TRUE, rows |-> df]
                          ELSE csv]))))

---------------------------------------------------------------------------
\* Inputs of the EV-share calls

\* range_miles >= 0: zero, below the 1e-6 floor, between and at bin
\* midpoints, at and above the largest default midpoint (120), and 1e9.
RangeInputs ==
    { D(0, 0), D(1, -7), D(5, -1), D(5, 0), D(30, 0), D(100, 0),
      D(120, 0), D(150, 0), D(1, 9) }

\* Bin collections: None (the default set), two bins with an open-ended
\* tail, three bins, a collection with a zero-length bin, a collection of
\* zero-length bins only, and the empty collection.
BinInputs ==
    { NoBins,
      Bins(<< TripBin(D(0, 0), D(10, 0), D(5, -1)),
              TripBin(D(10, 0), None, D(5, -1)) >>),
      Bins(<< TripBin(D(0, 0), D(3, 0), D(3, -1)),
              TripBin(D(3, 0), D(7, 0), D(3, -1)),
              TripBin(D(7, 0), None, D(4, -1)) >>),
      Bins(<< TripBin(D(0, 0), D(0, 0), D(2, -1)),
              TripBin(D(0, 0), D(20, 0), D(8, -1)) >>),
      Bins(<< TripBin(D(0, 0), D(0, 0), D(1, 0)) >>),
      Bins(<< >>) }

\* Scenario parameter sets, all fields positive: an average grid, a grid
\* dirtier than gasoline per mile (negative savings), a clean grid, and a
\* grid that emits exactly what gasoline does per mile (0.3 kg/mile).
AverageParams ==
    ScenarioParams("Average", D(4, -1), D(231, -2), D(3, -1), D(15, -2),
                   D(3, -1), D(150, 0), D(15, -2), D(1, 0))
WorstParams ==
    ScenarioParams("Worst", D(15, -1), D(231, -2), D(3, -1), D(15, -2),
                   D(3, -1), D(200, 0), D(2, -1), D(12, -1))
BestParams ==
    ScenarioParams("Best", D(1, -1), D(231, -2), D(25, -2), D(15, -2),
                   D(25, -2), D(100, 0), D(1, -1), D(9, -1))
EvenParams ==
    ScenarioParams("Even", D(1, 0), D(2, 0), D(3, -1), D(15, -2),
                   D(3, -1), D(150, 0), D(15, -2), D(1, 0))

ParamInputs == { AverageParams, WorstParams, BestParams, EvenParams }

\* range_miles, ev_vmt and gas_vmt of the direct calculator calls.
EmRangeInputs == { D(0, 0), D(25, 0), D(100, 0), D(150, 0) }
EvVmtInputs == { D(0, 0), D(3, 3), D(415, 1), D(12, 3) }
GasVmtInputs == { D(0, 0), D(785, 1), D(9, 3), D(12, 3) }

\* The scenario configuration of the process: the three canonical
\* scenarios, a file with the Average scenario only, a file whose
\* 'scenarios' mapping is empty, a file without the 'scenarios' key, and no
\* file.
ConfigInputs ==
    { Config([n \in {"Worst", "Average", "Best"} |->
                 CASE n = "Worst" -> WorstParams
                   [] n = "Average" -> AverageParams
                   [] OTHER -> BestParams]),
      Config([n \in {"Average"} |-> AverageParams]),
      Config([n \in {} |-> AverageParams]),
      ConfigNoKey,
      ConfigMissing }

\* Arguments of the compute_range_scenario calls: ranges from 0 to 150,
\* listed and unlisted charging frequencies, loaded and unknown scenario
\* names, the default annual VMT (12000), one whose significand is odd at
\* full precision, and zero.
RsRangeInputs == { D(0, 0), D(5, 0), D(25, 0), D(100, 0), D(150, 0) }
ChargesInputs == { 2, 3, 4, 5, 7 }
NameInputs == { "Average", "Worst", "Bad" }
AnnualVmtInputs == { D(12000, 0), D(13500, 0), D(0, 0) }

\* Arguments of the run_erev_analysis calls: the defaults (None), one range
\* of the table, two of them, a range between table points, ranges outside
\* the table, a repeated range and the empty list; the defaults, known
\* scenario names in several orders, an unknown name and the empty list.
ErevRangesInputs ==
    { NoBins, Bins(<< Lit(100, 0) >>), Bins(<< Lit(25, 0), Lit(150, 0) >>),
      Bins(<< Lit(60, 0) >>), Bins(<< Lit(10, 0), Lit(200, 0) >>),
      Bins(<< Lit(100, 0), Lit(100, 0) >>), Bins(<< >>),
      Bins(<< Lit(0, 0), Lit(30, 0), Lit(60, 0), Lit(65, 0), Lit(140, 0),
              Lit(160, 0) >>) }
ErevScenariosInputs ==
    { NoBins, Bins(<< "Average" >>), Bins(<< "Worst", "Best" >>),
      Bins(<< "Best", "Average", "Worst" >>), Bins(<< "Bad" >>), Bins(<< >>) }

\* The most calls of the configuration loader a process is followed for.
MaxLoads == 5

\* The number of threads that call get_scenario_params concurrently, and the
\* names they ask for.
NumThreads == 3
ThreadNameInputs == { "Average", "Bad" }

\* Ranges of the compute_range_scenario calls mixed with direct lookups.
CacheRangeInputs == { D(25, 0), D(100, 0) }

---------------------------------------------------------------------------
VARIABLES
    bins,       \* the bins argument of the EV-share calls (None: not given)
    shareCall,  \* the last compute_ev_share_for_range call, with its locals
    sharePrev,  \* the call before it
    params,     \* the ScenarioParams of the direct calculator calls
    emCall,     \* the last compute_emissions_and_costs call and its result
    config,     \* the scenario configuration file of the process
    SCENARIOS_CACHE,  \* the module global _SCENARIOS_CACHE
    rsCall,     \* the last compute_range_scenario call: locals and outcome
    gspCall,    \* the last direct get_scenario_params call and its outcome
    loads,      \* how many times load_scenario_params_from_yaml was called
    rsKept,     \* an earlier compute_range_scenario call, kept for comparison
    threads,    \* the concurrent callers of get_scenario_params
    erevCall,   \* the last run_erev_analysis call and the table it returned
    results_csv, \* data/processed/erev_calculations_results.csv
    csv_file,   \* the trip-bin CSV file given to the loader
    loadCall    \* the last load_trip_bins_from_csv call and its outcome

\* The variables of the scenario-cache sessions, of the concurrent callers,
\* of the paper-replication path and of the trip-bin loader.
sessionVars == << gspCall, loads, rsKept >>
threadVars == << threads >>
erevVars == << erevCall, results_csv >>
loaderVars == << csv_file, loadCall >>

vars == << bins, shareCall, sharePrev, params, emCall, config, SCENARIOS_CACHE,
           rsCall, sessionVars, threadVars, erevVars, loaderVars >>

NoCall == [range_miles |-> None]

\* The outcome of a call that has not returned yet, and the call record
\* before the first call.
Pending == [raised |-> "pending", value |-> << >>]
NoRsCall == [args |-> << >>, out |-> [raised |-> "not_called", value |-> << >>]]
NoGspCall == [name |-> "", out |-> [raised |-> "not_called", value |-> << >>]]
NoErevCall == [args |-> << >>, out |-> [raised |-> "not_called", value |-> << >>]]
NoLoadCall == [out |-> [raised |-> "not_called", value |-> << >>]]

\* A file that does not exist.
NoFile == [exists |-> FALSE]

\* A CSV file as pd.read_csv sees it: its header columns and its data rows
\* (a blank bin_upper_miles cell reads as None).  A zero-byte file has no
\* columns.
CsvFile(columns, rows) == [exists |-> TRUE, columns |-> columns, rows |-> rows]
CsvRow(lower, upper, share) ==
    [bin_lower_miles |-> lower, bin_upper_miles |-> upper,
     share_of_trips |-> share]
required_cols == { "bin_lower_miles", "bin_upper_miles", "share_of_trips" }

\* The bins with every share_of_trips divided by total_share.
renormalised(bin_list, total_share) ==
    [i \in 1..Len(bin_list) |->
        [bin_list[i] EXCEPT !.share_of_trips = PyDiv(@, total_share)]]

\* load_trip_bins_from_csv(csv_path)
load_trip_bins_from_csv(file) ==
    IF ~file.exists
    THEN Raise("FileNotFoundError", "Trip-bin file not found")
    ELSE IF file.columns = {}
    THEN Raise("EmptyDataError", "No columns to parse from file")
    ELSE IF required_cols \ file.columns # {}
    THEN Raise("ValueError", required_cols \ file.columns)
    ELSE With([i \in 1..Len(file.rows) |->
                 TripBin(file.rows[i].bin_lower_miles,
                         file.rows[i].bin_upper_miles,
                         file.rows[i].share_of_trips)], LAMBDA loaded :
         With(total_share_of(loaded), LAMBDA total_share :
             IF FLe(total_share, Zero)
             THEN Raise("ValueError", "Sum of share_of_trips must be > 0")
             ELSE Return(renormalised(loaded, total_share))))

\* The parts of the state a session does not use.
SessionUnused == gspCall = NoGspCall /\ loads = 0 /\ rsKept = NoRsCall
ThreadsUnused == threads = << >>
ErevUnused == erevCall = NoErevCall /\ results_csv = NoFile
LoaderUnused == csv_file = NoFile /\ loadCall = NoLoadCall

\* A session of compute_ev_share_for_range calls on one bin collection.
InitShare ==
    /\ bins \in BinInputs
    /\ shareCall = NoCall
    /\ sharePrev = NoCall
    /\ params = None
    /\ emCall = NoCall
    /\ config = ConfigMissing
    /\ SCENARIOS_CACHE = CacheUnset
    /\ rsCall = NoRsCall
    /\ SessionUnused /\ ThreadsUnused /\ ErevUnused /\ LoaderUnused

CallEvShare ==
    \E r \in RangeInputs :
        /\ shareCall' = ev_share_locals(r, bins)
        /\ sharePrev' = shareCall
        /\ UNCHANGED << bins, params, emCall, config, SCENARIOS_CACHE, rsCall,
                       sessionVars, threadVars, erevVars, loaderVars >>

NextShare == CallEvShare

SpecShare == InitShare /\ [][NextShare]_vars

\* A session of compute_emissions_and_costs calls under one parameter set.
InitEmissions ==
    /\ params \in ParamInputs
    /\ emCall = NoCall
    /\ bins = NoBins
    /\ shareCall = NoCall
    /\ sharePrev = NoCall
    /\ config = ConfigMissing
    /\ SCENARIOS_CACHE = CacheUnset
    /\ rsCall = NoRsCall
    /\ SessionUnused /\ ThreadsUnused /\ ErevUnused /\ LoaderUnused

\* compute_emissions_and_costs called with arguments from the given sets.
CallEmissionsWith(range_set, ev_vmt_set, gas_vmt_set) ==
    \E r \in range_set, ev \in ev_vmt_set, gas \in gas_vmt_set :
        /\ emCall' = [range_miles |-> r, ev_vmt |-> ev, gas_vmt |-> gas,
                      result |-> compute_emissions_and_costs(r, ev, gas, params)]
        /\ UNCHANGED << bins, shareCall, sharePrev, params, config,
                       SCENARIOS_CACHE, rsCall,
                       sessionVars, threadVars, erevVars, loaderVars >>

CallEmissions == CallEmissionsWith(EmRangeInputs, EvVmtInputs, GasVmtInputs)

NextEmissions == CallEmissions

SpecEmissions == InitEmissions /\ [][NextEmissions]_vars

\* A process that calls compute_range_scenario repeatedly: the scenario
\* cache starts unset and is filled by the first lookup that loads.
InitScenario ==
    /\ config \in ConfigInputs
    /\ SCENARIOS_CACHE = CacheUnset
    /\ rsCall = NoRsCall
    /\ bins = NoBins
    /\ shareCall = NoCall
    /\ sharePrev = NoCall
    /\ params = None
    /\ emCall = NoCall
    /\ SessionUnused /\ ThreadsUnused /\ ErevUnused /\ LoaderUnused

\* A caller invokes compute_range_scenario(range_miles, charges_per_week,
\* scenario_name, annual_vmt=...).
InvokeRangeScenario ==
    /\ rsCall.out.raised # "pending"
    /\ \E r \in RsRangeInputs, c \in ChargesInputs, n \in NameInputs,
          a \in AnnualVmtInputs :
           rsCall' = [args |-> [range_miles |-> r, charges_per_week |-> c,
                                scenario_name |-> n, annual_vmt |-> a],
                      out |-> Pending]
    /\ UNCHANGED << bins, shareCall, sharePrev, params, emCall, config,
                    SCENARIOS_CACHE,
                    sessionVars, threadVars, erevVars, loaderVars >>

\* The call runs to its return or to the exception of the scenario lookup.
ReturnRangeScenario ==
    /\ rsCall.out.raised = "pending"
    /\ LET a == rsCall.args
           done == compute_range_scenario(a.range_miles, a.charges_per_week,
                                          a.scenario_name, a.annual_vmt,
                                          SCENARIOS_CACHE, config)
       IN  /\ rsCall' = [args |-> a, locals |-> done.locals, out |-> done.out]
           /\ SCENARIOS_CACHE' = done.cache
    /\ UNCHANGED << bins, shareCall, sharePrev, params, emCall, config,
                    sessionVars, threadVars, erevVars, loaderVars >>

NextScenario == InvokeRangeScenario \/ ReturnRangeScenario

SpecScenario == InitScenario /\ [][NextScenario]_vars

\* A process that makes get_scenario_params and compute_range_scenario
\* calls one after the other, in any order.  loads counts the calls of
\* load_scenario_params_from_yaml; a configuration that cannot be loaded is
\* tried again by every call, so the count is capped at MaxLoads.
InitCache ==
    /\ config \in ConfigInputs
    /\ SCENARIOS_CACHE = CacheUnset
    /\ rsCall = NoRsCall
    /\ gspCall = NoGspCall
    /\ loads = 0
    /\ rsKept = NoRsCall
    /\ bins = NoBins
    /\ shareCall = NoCall
    /\ sharePrev = NoCall
    /\ params = None
    /\ emCall = NoCall
    /\ ThreadsUnused /\ ErevUnused /\ LoaderUnused

\* get_scenario_params(name)
CallGetScenarioParams ==
    /\ loads < MaxLoads
    /\ \E n \in NameInputs :
           LET done == get_scenario_params(n, SCENARIOS_CACHE, config)
           IN  /\ gspCall' = [name |-> n, out |-> done.out]
               /\ SCENARIOS_CACHE' = done.cache
               /\ loads' = loads + done.loader_calls
    /\ UNCHANGED << bins, shareCall, sharePrev, params, emCall, config, rsCall,
                    rsKept, threadVars, erevVars, loaderVars >>

\* compute_range_scenario(range_miles, charges_per_week, scenario_name)
CallRangeScenario ==
    /\ loads < MaxLoads
    /\ \E r \in CacheRangeInputs, n \in NameInputs :
           LET done == compute_range_scenario(r, 5, n, D(12000, 0),
                                              SCENARIOS_CACHE, config)
           IN  /\ rsCall' = [args |-> [range_miles |-> r, charges_per_week |-> 5,
                                       scenario_name |-> n,
                                       annual_vmt |-> D(12000, 0)],
                             locals |-> done.locals, out |-> done.out]
               /\ SCENARIOS_CACHE' = done.cache
               /\ loads' = loads + done.loader_calls
    /\ UNCHANGED << bins, shareCall, sharePrev, params, emCall, config, gspCall,
                    rsKept, threadVars, erevVars, loaderVars >>

NextCache == CallGetScenarioParams \/ CallRangeScenario

SpecCache == InitCache /\ [][NextCache]_vars

\* A process that calls run_erev_analysis repeatedly; the results file
\* does not exist at the start.
InitErev ==
    /\ erevCall = NoErevCall
    /\ results_csv = NoFile
    /\ config = ConfigMissing
    /\ SCENARIOS_CACHE = CacheUnset
    /\ rsCall = NoRsCall
    /\ bins = NoBins
    /\ shareCall = NoCall
    /\ sharePrev = NoCall
    /\ params = None
    /\ emCall = NoCall
    /\ SessionUnused /\ ThreadsUnused /\ LoaderUnused

\* A caller invokes run_erev_analysis(ranges, scenarios, save_csv) with
\* arguments from the given sets.
InvokeErevAnalysisWith(ranges_set, scenarios_set, save_csv_set) ==
    /\ erevCall.out.raised # "pending"
    /\ \E ranges \in ranges_set, scenarios \in scenarios_set,
          save_csv \in save_csv_set :
           erevCall' = [args |-> [ranges |-> ranges, scenarios |-> scenarios,
                                  save_csv |-> save_csv],
                        out |-> Pending]
    /\ UNCHANGED << results_csv, bins, shareCall, sharePrev, params, emCall,
                    config, SCENARIOS_CACHE, rsCall, sessionVars, threadVars,
                    loaderVars >>

InvokeErevAnalysis ==
    InvokeErevAnalysisWith(ErevRangesInputs, ErevScenariosInputs, BOOLEAN)

\* The call runs to its return or to its exception.
ReturnErevAnalysis ==
    /\ erevCall.out.raised = "pending"
    /\ LET a == erevCall.args
           done == run_erev_analysis(a.ranges, a.scenarios, a.save_csv,
                                     results_csv)
       IN  /\ erevCall' = [args |-> a, out |-> done.out]
           /\ results_csv' = done.csv
    /\ UNCHANGED << bins, shareCall, sharePrev, params, emCall, config,
                    SCENARIOS_CACHE, rsCall, sessionVars, threadVars,
                    loaderVars >>

NextErev == InvokeErevAnalysis \/ ReturnErevAnalysis

SpecErev == InitErev /\ [][NextErev]_vars

\* Trip-bin files: no file, a zero-byte file, a file without the share
\* column, a header with no rows, rows whose shares are all zero, rows whose
\* shares sum to a negative number, shares that sum to 1, shares that sum
\* to 2, three equal shares, a negative share beside a larger positive one,
\* and a blank share cell (read as NaN).
CsvInputs ==
    { NoFile,
      CsvFile({}, << >>),
      CsvFile({ "bin_lower_miles", "bin_upper_miles" }, << >>),
      CsvFile(required_cols, << >>),
      CsvFile(required_cols, << CsvRow(D(0, 0), D(10, 0), Zero),
                                CsvRow(D(10, 0), None, Zero) >>),
      CsvFile(required_cols, << CsvRow(D(0, 0), D(10, 0), D(2, -1)),
                                CsvRow(D(10, 0), None, D(-5, -1)) >>),
      CsvFile(required_cols, << CsvRow(D(0, 0), D(10, 0), D(5, -1)),
                                CsvRow(D(10, 0), None, D(5, -1)) >>),
      CsvFile(required_cols, << CsvRow(D(0, 0), D(4, 0), D(5, -1)),
                                CsvRow(D(4, 0), D(20, 0), D(1, 0)),
                                CsvRow(D(20, 0), None, D(5, -1)) >>),
      CsvFile(required_cols, << CsvRow(D(0, 0), D(5, 0), One),
                                CsvRow(D(5, 0), D(15, 0), One),
                                CsvRow(D(15, 0), None, One) >>),
      CsvFile(required_cols, << CsvRow(D(0, 0), D(10, 0), D(-5, -1)),
                                CsvRow(D(10, 0), None, D(15, -1)) >>),
      CsvFile(required_cols, << CsvRow(D(0, 0), D(10, 0), D(5, -1)),
                                CsvRow(D(10, 0), None, NaN) >>) }

\* Bin collections a caller builds without the loader: None, the empty
\* collection, bins whose shares are all zero and bins whose shares sum to 1.
DirectBinInputs ==
    { NoBins,
      Bins(<< >>),
      Bins(<< TripBin(D(0, 0), D(10, 0), Zero),
              TripBin(D(10, 0), None, Zero) >>),
      Bins(<< TripBin(D(0, 0), D(10, 0), D(5, -1)),
              TripBin(D(10, 0), None, D(5, -1)) >>) }

\* Bins with positive total VMT, normalised or not, and the constants a
\* caller multiplies every share_of_trips by.
ScaleBinInputs ==
    { Bins(<< TripBin(D(0, 0), D(10, 0), D(4, -1)),
              TripBin(D(10, 0), D(30, 0), D(35, -2)),
              TripBin(D(30, 0), None, D(25, -2)) >>),
      Bins(<< TripBin(D(0, 0), D(10, 0), D(5, -1)),
              TripBin(D(10, 0), None, D(5, -1)) >>),
      Bins(<< TripBin(D(0, 0), D(3, 0), D(3, -1)),
              TripBin(D(3, 0), D(7, 0), D(3, -1)),
              TripBin(D(7, 0), None, D(4, -1)) >>),
      Bins(<< TripBin(D(0, 0), D(0, 0), D(2, -1)),
              TripBin(D(0, 0), D(20, 0), D(6, -1)),
              TripBin(D(20, 0), D(50, 0), D(1, -1)) >>) }
ScaleInputs == { D(10, 0), D(1, -2), D(2, 0), D(3, 0), D(7, 0), D(5, -1) }
ScaleRangeInputs == { D(0, 0), D(5, 0), D(20, 0), D(25, 0), D(100, 0) }

\* The bins with every share_of_trips multiplied by k.
scaled_bins(bin_list, k) ==
    [i \in 1..Len(bin_list) |->
        [bin_list[i] EXCEPT !.share_of_trips = FMul(@, k)]]

\* A caller that computes the EV share of its bins, multiplies every
\* share_of_trips by a constant and computes the EV share again.
InitScaled ==
    /\ bins \in ScaleBinInputs
    /\ shareCall = NoCall
    /\ sharePrev = NoCall
    /\ params = None
    /\ emCall = NoCall
    /\ config = ConfigMissing
    /\ SCENARIOS_CACHE = CacheUnset
    /\ rsCall = NoRsCall
    /\ SessionUnused /\ ThreadsUnused /\ ErevUnused /\ LoaderUnused

\* compute_ev_share_for_range(range_miles, bins=bins)
ScaledCallEvShare ==
    \E r \in ScaleRangeInputs :
        /\ shareCall' = ev_share_locals(r, bins)
        /\ sharePrev' = shareCall
        /\ UNCHANGED << bins, params, emCall, config, SCENARIOS_CACHE, rsCall,
                       sessionVars, threadVars, erevVars, loaderVars >>

\* The caller multiplies the share_of_trips of every bin by k.
RescaleBins ==
    /\ bins \in ScaleBinInputs
    /\ \E k \in ScaleInputs : bins' = Bins(scaled_bins(bins.list, k))
    /\ UNCHANGED << shareCall, sharePrev, params, emCall, config,
                    SCENARIOS_CACHE, rsCall, sessionVars, threadVars, erevVars,
                    loaderVars >>

NextScaled == ScaledCallEvShare \/ RescaleBins

SpecScaled == InitScaled /\ [][NextScaled]_vars

\* A caller that calls compute_range_scenario any number of times with any
\* arguments, and keeps some of the results to compare later ones with.
InitRepeat == InitCache

\* compute_range_scenario(range_miles, charges_per_week, scenario_name)
RepeatRangeScenario ==
    /\ loads < MaxLoads
    /\ \E r \in CacheRangeInputs, c \in { 3, 5 }, n \in ThreadNameInputs :
           LET done == compute_range_scenario(r, c, n, D(12000, 0),
                                              SCENARIOS_CACHE, config)
           IN  /\ rsCall' = [args |-> [range_miles |-> r, charges_per_week |-> c,
                                       scenario_name |-> n,
                                       annual_vmt |-> D(12000, 0)],
                             locals |-> done.locals, out |-> done.out]
               /\ SCENARIOS_CACHE' = done.cache
               /\ loads' = loads + done.loader_calls
    /\ UNCHANGED << bins, shareCall, sharePrev, params, emCall, config, gspCall,
                    rsKept, threadVars, erevVars, loaderVars >>

\* The caller keeps the outcome of the call that has just ended.
KeepRangeScenario ==
    /\ rsCall # NoRsCall
    /\ rsKept' = rsCall
    /\ UNCHANGED << bins, shareCall, sharePrev, params, emCall, config, gspCall,
                    loads, rsCall, SCENARIOS_CACHE, threadVars, erevVars,
                    loaderVars >>

NextRepeat == RepeatRangeScenario \/ KeepRangeScenario

SpecRepeat == InitRepeat /\ [][NextRepeat]_vars

\* A caller with a trip-bin file: it loads the bins with
\* load_trip_bins_from_csv and passes the bins it holds to
\* compute_ev_share_for_range.
InitLoader ==
    /\ csv_file \in CsvInputs
    /\ loadCall = NoLoadCall
    /\ bins \in DirectBinInputs
    /\ shareCall = NoCall
    /\ sharePrev = NoCall
    /\ params = None
    /\ emCall = NoCall
    /\ config = ConfigMissing
    /\ SCENARIOS_CACHE = CacheUnset
    /\ rsCall = NoRsCall
    /\ SessionUnused /\ ThreadsUnused /\ ErevUnused

\* bins = load_trip_bins_from_csv(csv_path)
CallLoadTripBins ==
    /\ loadCall' = [out |-> load_trip_bins_from_csv(csv_file)]
    /\ bins' = IF loadCall'.out.raised = "" THEN Bins(loadCall'.out.value)
               ELSE bins
    /\ UNCHANGED << csv_file, shareCall, sharePrev, params, emCall, config,
                    SCENARIOS_CACHE, rsCall, sessionVars, threadVars,
                    erevVars >>

\* compute_ev_share_for_range(range_miles, bins=bins)
LoaderCallEvShare ==
    \E r \in { D(0, 0), D(5, 0), D(100, 0) } :
        /\ shareCall' = ev_share_locals(r, bins)
        /\ sharePrev' = shareCall
        /\ UNCHANGED << bins, params, emCall, config, SCENARIOS_CACHE, rsCall,
                       sessionVars, threadVars, erevVars, loaderVars >>

NextLoader == CallLoadTripBins \/ LoaderCallEvShare

SpecLoader == InitLoader /\ [][NextLoader]_vars

\* A process that uses both calculation paths: run_erev_analysis and
\* compute_emissions_and_costs.
InitTwoPaths ==
    /\ params \in { AverageParams, BestParams }
    /\ emCall = NoCall
    /\ erevCall = NoErevCall
    /\ results_csv = NoFile
    /\ config = ConfigMissing
    /\ SCENARIOS_CACHE = CacheUnset
    /\ rsCall = NoRsCall
    /\ bins = NoBins
    /\ shareCall = NoCall
    /\ sharePrev = NoCall
    /\ SessionUnused /\ ThreadsUnused /\ LoaderUnused

TwoPathsInvokeErevAnalysis ==
    InvokeErevAnalysisWith(
        { Bins(<< Lit(100, 0) >>), Bins(<< Lit(25, 0), Lit(150, 0) >>) },
        { Bins(<< "Average" >>), Bins(<< "Worst", "Best" >>) },
        { FALSE })

TwoPathsCallEmissions ==
    CallEmissionsWith({ D(25, 0), D(100, 0) }, { D(3, 3), D(12, 3) },
                      { D(0, 0), D(9, 3) })

NextTwoPaths ==
    \/ TwoPathsInvokeErevAnalysis
    \/ ReturnErevAnalysis
    \/ TwoPathsCallEmissions

SpecTwoPaths == InitTwoPaths /\ [][NextTwoPaths]_vars

\* Threads that call get_scenario_params with no lock.  A call is followed
\* through the steps of _load_scenarios_if_needed between which another
\* thread can run: the test of the global, the load, the assignment to the
\* global, and the read of the global that is returned and looked up.
\* started_set records whether the cache was set when the call began.
IdleThread ==
    [pc |-> "idle", name |-> "", started_set |-> FALSE, local |-> << >>,
     out |-> [raised |-> "not_called", value |-> << >>]]

InitThreads ==
    /\ config \in ConfigInputs
    /\ SCENARIOS_CACHE = CacheUnset
    /\ threads = [t \in 1..NumThreads |-> IdleThread]
    /\ loads = 0
    /\ gspCall = NoGspCall
    /\ rsKept = NoRsCall
    /\ rsCall = NoRsCall
    /\ bins = NoBins
    /\ shareCall = NoCall
    /\ sharePrev = NoCall
    /\ params = None
    /\ emCall = NoCall
    /\ ErevUnused /\ LoaderUnused

\* What the threads leave alone.
threadOthers ==
    << bins, shareCall, sharePrev, params, emCall, config, rsCall, gspCall,
       rsKept, erevVars, loaderVars >>

\* Thread t enters get_scenario_params(name).
ThreadCall(t) ==
    /\ threads[t].pc = "idle"
    /\ \E n \in ThreadNameInputs :
           threads' = [threads EXCEPT ![t] =
                          [pc |-> "test", name |-> n,
                           started_set |-> SCENARIOS_CACHE # CacheUnset,
                           local |-> << >>, out |-> Pending]]
    /\ UNCHANGED << SCENARIOS_CACHE, loads, threadOthers >>

\* if _SCENARIOS_CACHE is None
ThreadTest(t) ==
    /\ threads[t].pc = "test"
    /\ threads' = [threads EXCEPT ![t].pc = after_cache_test(SCENARIOS_CACHE)]
    /\ UNCHANGED << SCENARIOS_CACHE, loads, threadOthers >>

\* load_scenario_params_from_yaml() returns the mapping it built, or raises
\* out of get_scenario_params.
ThreadLoad(t) ==
    /\ threads[t].pc = "load"
    /\ loads < MaxLoads
    /\ LET loaded == load_scenario_params_from_yaml(config)
       IN  threads' = [threads EXCEPT ![t] =
                          IF loaded.raised # ""
                          THEN [@ EXCEPT !.pc = "idle", !.out = loaded]
                          ELSE [@ EXCEPT !.pc = "store", !.local = loaded.value]]
    /\ loads' = loads + 1
    /\ UNCHANGED << SCENARIOS_CACHE, threadOthers >>

\* _SCENARIOS_CACHE = <the mapping loaded>
ThreadStore(t) ==
    /\ threads[t].pc = "store"
    /\ SCENARIOS_CACHE' = threads[t].local
    /\ threads' = [threads EXCEPT ![t].pc = "return"]
    /\ UNCHANGED << loads, threadOthers >>

\* return _SCENARIOS_CACHE, and the lookup of name in it.
ThreadReturn(t) ==
    /\ threads[t].pc = "return"
    /\ threads' = [threads EXCEPT ![t] =
                      [@ EXCEPT !.pc = "idle",
                                !.out = scenario_lookup(threads[t].name,
                                                        SCENARIOS_CACHE)]]
    /\ UNCHANGED << SCENARIOS_CACHE, loads, threadOthers >>

NextThreads ==
    \E t \in 1..NumThreads :
        \/ ThreadCall(t)
        \/ ThreadTest(t)
        \/ ThreadLoad(t)
        \/ ThreadStore(t)
        \/ ThreadReturn(t)

SpecThreads == InitThreads /\ [][NextThreads]_vars

---------------------------------------------------------------------------
\* Properties of the EV-share calculator (checked under SpecShare)

ShareCalled == shareCall # NoCall

\* The trip shares of the bins of the last call sum to exactly 1.
SharesSumToOne == FEq(total_share_of(shareCall.bins), One)

\* C1: for bins whose share_of_trips sum to 1 and range_miles >= 0,
\* compute_ev_share_for_range returns a number s with 0 <= s <= 1.
C1_ShareInUnitInterval ==
    (ShareCalled /\ SharesSumToOne /\ FLe(Zero, shareCall.range_miles))
        => /\ IsNum(shareCall.ev_share)
           /\ FLe(Zero, shareCall.ev_share)
           /\ FLe(shareCall.ev_share, One)

\* A call on given bins summing to 1 whose result lies strictly inside (0, 1).
C1_Witness ==
    /\ ShareCalled /\ bins # NoBins /\ SharesSumToOne
    /\ FLt(Zero, shareCall.ev_share) /\ FLt(shareCall.ev_share, One)

\* C2: for fixed bins, compute_ev_share_for_range is non-decreasing in
\* range_miles: of two calls, the one with the smaller range returns the
\* smaller or equal share.
C2_ShareMonotone ==
    (ShareCalled /\ sharePrev # NoCall
        /\ FLe(sharePrev.range_miles, shareCall.range_miles))
        => FLe(sharePrev.ev_share, shareCall.ev_share)

\* Two calls on the same bins, the second with a larger range and a strictly
\* larger share.
C2_Witness ==
    /\ ShareCalled /\ sharePrev # NoCall
    /\ FLt(sharePrev.range_miles, shareCall.range_miles)
    /\ FLt(sharePrev.ev_share, shareCall.ev_share)

\* C3: compute_ev_share_for_range(0, bins) is exactly 0 for every bin
\* collection, the default one and those with a zero-length bin included.
C3_ZeroRangeZeroShare ==
    (ShareCalled /\ shareCall.range_miles = Zero) => shareCall.ev_share = Zero

\* A call at range 0 on a collection that holds a zero-length bin next to a
\* bin of positive length.
C3_Witness ==
    /\ ShareCalled /\ shareCall.range_miles = Zero
    /\ \E i \in 1..Len(shareCall.bins) : shareCall.distances[i] = Zero
    /\ \E i \in 1..Len(shareCall.bins) : FLt(Zero, shareCall.distances[i])

\* The share from which the default bin set counts as saturated: 0.999999,
\* lowered to the rounding a sum of 9 quotients can lose at Prec digits
\* ((9 + 1) half units of the last place) where that exceeds 1e-6.
SaturationFloor ==
    IF Prec >= 8 THEN D(999999, -6) ELSE D(Pow10(Prec) - 50, -Prec)

\* C4: on the default bin set the share saturates: it is >= 0.999999 for
\* every range_miles >= 120 (the largest bin midpoint), 1e9 included, and
\* the electrified fraction is exactly 1 for every bin whose midpoint is
\* <= range_miles.
C4_SaturatesAtOne ==
    (ShareCalled /\ bins = NoBins)
        => /\ \A i \in 1..Len(shareCall.bins) :
                FLe(shareCall.distances[i], D(120, 0))
           /\ \A i \in 1..Len(shareCall.bins) :
                FLe(shareCall.distances[i], shareCall.range_miles)
                    => shareCall.frac_electric_per_bin[i] = One
           /\ FLe(D(120, 0), shareCall.range_miles)
                => FLe(SaturationFloor, shareCall.ev_share)

\* A default-bins call at exactly the largest midpoint, every bin fully
\* electrified.
C4_Witness ==
    /\ ShareCalled /\ bins = NoBins /\ shareCall.range_miles = D(120, 0)
    /\ shareCall.distances[Len(shareCall.bins)] = D(120, 0)
    /\ \A i \in 1..Len(shareCall.bins) : shareCall.frac_electric_per_bin[i] = One

\* C5: default_trip_bins() is 9 contiguous bins from 0 to 100+ (the last
\* open-ended) whose shares sum to 1 within 1e-6, and a call without bins
\* computes on exactly that set.
C5_DefaultBins ==
    (ShareCalled /\ bins = NoBins)
        => LET b == shareCall.bins
           IN  /\ b = default_trip_bins
               /\ Len(b) = 9
               /\ b[1].lower = Zero
               /\ \A i \in 1..(Len(b) - 1) : b[i].upper = b[i + 1].lower
               /\ b[Len(b)].lower = D(100, 0) /\ b[Len(b)].upper = None
               /\ FLe(FAbs(FSub(total_share_of(b), One)), D(1, -6))

\* A call made without a bins argument.
C5_Witness ==
    /\ ShareCalled /\ bins = NoBins /\ Len(shareCall.bins) = 9
    /\ FLt(Zero, shareCall.ev_share)

---------------------------------------------------------------------------
\* Properties of the emissions/cost calculator (checked under SpecEmissions)

EmCalled == emCall # NoCall

\* C6: with ev_vmt = 0 the result is a pure-gasoline comparison:
\* co2_ev_tons == 0, co2_gas_tons == co2_baseline_tons and
\* co2_savings_tons == 0 exactly, whatever range_miles, gas_vmt and params.
C6_NoEvMilesNoSavings ==
    (EmCalled /\ emCall.ev_vmt = Zero)
        => /\ emCall.result.co2_ev_tons = Zero
           /\ emCall.result.co2_gas_tons = emCall.result.co2_baseline_tons
           /\ emCall.result.co2_savings_tons = Zero

\* A call with no electric miles, some gasoline miles and a battery.
C6_Witness ==
    /\ EmCalled /\ emCall.ev_vmt = Zero
    /\ FLt(Zero, emCall.gas_vmt) /\ FLt(Zero, emCall.range_miles)
    /\ FLt(Zero, emCall.result.co2_baseline_tons)

\* C7: whenever co2_savings_tons <= 0 the call returns (does not raise) with
\* capex_per_ton_usd == +infinity, never zero or a finite negative number.
C7_NoSavingsInfiniteCost ==
    (EmCalled /\ FLe(emCall.result.co2_savings_tons, Zero))
        => emCall.result.capex_per_ton_usd = PosInf

\* A call whose electric miles emit more than the gasoline they replace.
C7_Witness ==
    /\ EmCalled /\ FLt(emCall.result.co2_savings_tons, Zero)
    /\ FLt(Zero, emCall.result.battery_capex_usd)
    /\ emCall.result.capex_per_ton_usd = PosInf

\* C8 as claimed: whenever co2_savings_tons > 0, capex_per_ton_usd is a
\* finite positive number, for every range_miles >= 0.
C8_Claimed_FinitePositive ==
    (EmCalled /\ FGt(emCall.result.co2_savings_tons, Zero))
        => /\ IsNum(emCall.result.capex_per_ton_usd)
           /\ FGt(emCall.result.capex_per_ton_usd, Zero)

\* C8 amended: whenever co2_savings_tons > 0, capex_per_ton_usd is the
\* quotient battery_capex_usd / co2_savings_tons, finite and not negative;
\* it is positive when range_miles > 0 and zero when range_miles == 0 (a
\* battery of no range costs nothing).
C8_FiniteNonNegative ==
    (EmCalled /\ FGt(emCall.result.co2_savings_tons, Zero))
        => /\ IsNum(emCall.result.capex_per_ton_usd)
           /\ emCall.result.capex_per_ton_usd =
                  PyDiv(emCall.result.battery_capex_usd,
                        emCall.result.co2_savings_tons)
           /\ FLe(Zero, emCall.result.capex_per_ton_usd)
           /\ FGt(emCall.range_miles, Zero)
                  => FGt(emCall.result.capex_per_ton_usd, Zero)
           /\ emCall.range_miles = Zero
                  => emCall.result.capex_per_ton_usd = Zero

\* A call with positive savings and a zero-range battery: the cost per ton
\* is zero.
C8_Witness ==
    /\ EmCalled /\ FGt(emCall.result.co2_savings_tons, Zero)
    /\ emCall.range_miles = Zero
    /\ emCall.result.capex_per_ton_usd = Zero

\* C14: co2_savings_tons is co2_baseline_tons - (co2_ev_tons + co2_gas_tons)
\* as computed, not clamped: when the EV and residual gasoline emissions
\* exceed the all-gasoline baseline, the savings returned are negative.
C14_SavingsUnclamped ==
    EmCalled
        => /\ emCall.result.co2_savings_tons =
                  FSub(emCall.result.co2_baseline_tons,
                       FAdd(emCall.result.co2_ev_tons, emCall.result.co2_gas_tons))
           /\ FGt(FAdd(emCall.result.co2_ev_tons, emCall.result.co2_gas_tons),
                  emCall.result.co2_baseline_tons)
                  => FLt(emCall.result.co2_savings_tons, Zero)

\* A call whose EV and gasoline emissions together exceed the baseline: the
\* savings are negative.
C14_Witness ==
    /\ EmCalled
    /\ FGt(emCall.ev_vmt, Zero)
    /\ FGt(FAdd(emCall.result.co2_ev_tons, emCall.result.co2_gas_tons),
           emCall.result.co2_baseline_tons)
    /\ FLt(emCall.result.co2_savings_tons, Zero)

---------------------------------------------------------------------------
\* compute_range_scenario

\* The last compute_range_scenario call has ended, by return or by raise.
RsEnded == rsCall.out.raised \notin {"pending", "not_called"}

\* The last compute_range_scenario call has returned a RangeScenarioResult.
RsReturned == rsCall.out.raised = ""

\* One unit in the last place of x.
Ulp(x) == IF IsZero(x) THEN Zero ELSE D(1, Top(x) - Prec + 1)

\* C9 as claimed: every call that returns has ev_vmt == ev_share * annual_vmt
\* and ev_vmt + gas_vmt == annual_vmt exactly, whatever annual_vmt is.
C9_Claimed_SplitSumsExactly ==
    RsReturned
        => /\ rsCall.out.value.ev_vmt =
                  FMul(rsCall.out.value.ev_share, rsCall.args.annual_vmt)
           /\ FAdd(rsCall.out.value.ev_vmt, rsCall.out.value.gas_vmt) =
                  rsCall.args.annual_vmt

\* C9 amended: every call that returns has ev_vmt == ev_share * annual_vmt
\* and gas_vmt == annual_vmt - ev_vmt, each one rounded operation; the sum
\* ev_vmt + gas_vmt equals annual_vmt exactly for the default annual_vmt of
\* 12000 and whenever ev_share >= 0.5, and is otherwise within one unit in
\* the last place of annual_vmt.
C9_SplitSumsWithinRounding ==
    RsReturned
        => /\ rsCall.out.value.ev_vmt =
                  FMul(rsCall.out.value.ev_share, rsCall.args.annual_vmt)
           /\ rsCall.out.value.gas_vmt =
                  FSub(rsCall.args.annual_vmt, rsCall.out.value.ev_vmt)
           /\ (\/ rsCall.args.annual_vmt = D(12000, 0)
               \/ FLe(D(5, -1), rsCall.out.value.ev_share))
                  => FAdd(rsCall.out.value.ev_vmt, rsCall.out.value.gas_vmt) =
                         rsCall.args.annual_vmt
           /\ FLe(FAbs(FSub(FAdd(rsCall.out.value.ev_vmt,
                                 rsCall.out.value.gas_vmt),
                            rsCall.args.annual_vmt)),
                  Ulp(rsCall.args.annual_vmt))

\* A returned call with the default annual_vmt and an EV share strictly
\* between 0 and 0.5, whose gasoline miles are a rounded difference: the two
\* parts still sum to 12000.
C9_Witness ==
    /\ RsReturned
    /\ rsCall.args.annual_vmt = D(12000, 0)
    /\ FLt(Zero, rsCall.out.value.ev_share)
    /\ FLt(rsCall.out.value.ev_share, D(5, -1))
    /\ FAdd(rsCall.out.value.ev_vmt, rsCall.out.value.gas_vmt) = D(12000, 0)

\* C10: the charging-frequency multiplier is 0.85 for 2, 0.90 for 3, 1.00 for
\* 5, 1.05 for 7 and 1.0 for every other charges_per_week; for 5 and for every
\* unlisted value the returned ev_share equals compute_ev_share_for_range on
\* the default bins.
C10_MultiplierLookup ==
    RsEnded
        => /\ rsCall.args.charges_per_week = 2 => rsCall.locals.mult = D(85, -2)
           /\ rsCall.args.charges_per_week = 3 => rsCall.locals.mult = D(9, -1)
           /\ rsCall.args.charges_per_week = 7 => rsCall.locals.mult = D(105, -2)
           /\ rsCall.args.charges_per_week \notin {2, 3, 7}
                  => rsCall.locals.mult = One
           /\ (RsReturned /\ rsCall.args.charges_per_week \notin {2, 3, 7})
                  => rsCall.out.value.ev_share =
                         compute_ev_share_for_range(rsCall.args.range_miles, NoBins)

\* A returned call with five charges a week and an EV share strictly between
\* 0 and 1, equal to the share of the default bins at that range.
C10_Witness ==
    /\ RsReturned
    /\ rsCall.args.charges_per_week = 5
    /\ FLt(Zero, rsCall.out.value.ev_share)
    /\ FLt(rsCall.out.value.ev_share, One)
    /\ rsCall.out.value.ev_share =
           compute_ev_share_for_range(rsCall.args.range_miles, NoBins)

---------------------------------------------------------------------------
\* Scenario lookup and the scenario cache (checked under SpecCache)

\* The last direct get_scenario_params call got past the loader: it returned
\* or it raised KeyError.
GspLookedUp == gspCall.out.raised \in {"", "KeyError"}

\* Some get_scenario_params or compute_range_scenario call has been made.
CacheCallMade ==
    gspCall.out.raised # "not_called" \/ rsCall.out.raised # "not_called"

\* C11: get_scenario_params(name) returns the loaded ScenarioParams stored
\* under name when name is in the loaded set, and otherwise raises KeyError
\* listing exactly the names of the loaded set; it never answers with another
\* scenario.  With a configuration that loads, these are the only outcomes.
C11_LookupOrKeyError ==
    /\ GspLookedUp
           => /\ SCENARIOS_CACHE # CacheUnset
              /\ gspCall.name \in DOMAIN SCENARIOS_CACHE
                     => /\ gspCall.out.raised = ""
                        /\ gspCall.out.value = SCENARIOS_CACHE[gspCall.name]
                        /\ gspCall.out.value.name = gspCall.name
              /\ gspCall.name \notin DOMAIN SCENARIOS_CACHE
                     => /\ gspCall.out.raised = "KeyError"
                        /\ gspCall.out.value = DOMAIN SCENARIOS_CACHE
    /\ (gspCall.out.raised # "not_called" /\ config.kind = "ok")
           => /\ GspLookedUp
              /\ SCENARIOS_CACHE = config.scenarios

\* A lookup of "Bad" in the three canonical scenarios: KeyError listing
\* Worst, Average and Best.
C11_Witness ==
    /\ gspCall.name = "Bad"
    /\ gspCall.out.raised = "KeyError"
    /\ gspCall.out.value = {"Worst", "Average", "Best"}

\* C12 as claimed: in any sequence of calls the loader is called exactly
\* once, by the first call, and no later call invokes it again.
C12_Claimed_LoadedExactlyOnce ==
    /\ ~CacheCallMade => loads = 0
    /\ CacheCallMade => loads = 1

\* C12 amended: nothing is loaded before the first call; a call made while
\* the cache is unset calls the loader once, and a call made once the cache
\* is set does not call it; a load that raises (file missing, no 'scenarios'
\* key) leaves the cache unset, so the next call loads again; a load that
\* succeeds sets the cache to the loaded set, which is never reset or
\* replaced afterwards: a configuration that loads is loaded exactly once.
C12_LoadedOnceWhenLoadable ==
    /\ [](~CacheCallMade => (loads = 0 /\ SCENARIOS_CACHE = CacheUnset))
    /\ [](CacheCallMade /\ config.kind = "ok"
              => (loads = 1 /\ SCENARIOS_CACHE = config.scenarios))
    /\ [](CacheCallMade /\ config.kind # "ok"
              => (loads >= 1 /\ SCENARIOS_CACHE = CacheUnset))
    /\ [][/\ SCENARIOS_CACHE # CacheUnset
                 => (SCENARIOS_CACHE' = SCENARIOS_CACHE /\ loads' = loads)
          /\ SCENARIOS_CACHE = CacheUnset => loads' = loads + 1]_vars

\* After one load of the canonical configuration, a failed lookup and a
\* returned compute_range_scenario call have both read the cache.
C12_Witness ==
    /\ loads = 1
    /\ SCENARIOS_CACHE # CacheUnset
    /\ gspCall.out.raised = "KeyError"
    /\ rsCall.out.raised = ""

---------------------------------------------------------------------------
\* Concurrent callers of get_scenario_params (checked under SpecThreads)

\* C13 as claimed: with concurrent callers on an unpopulated cache, a
\* configuration that loads is loaded at most twice: the first load and at
\* most one redundant one.
C13_Claimed_OneRedundantLoad ==
    config.kind = "ok" => loads <= 2

\* C13 amended: with concurrent callers and no lock, every caller that gets
\* an answer gets it from the completely loaded scenario set; the cache is
\* only ever unset or the complete set, and once set it is never unset
\* again; a call that began after the cache was set never loads, and a call
\* loads at most once, so a configuration that loads is loaded at most once
\* per caller: up to as many redundant loads as there are other callers
\* that tested the cache before the first assignment, not at most one.
C13_CompleteSetOneLoadPerCaller ==
    /\ [](/\ SCENARIOS_CACHE # CacheUnset
                => (config.kind = "ok" /\ SCENARIOS_CACHE = config.scenarios)
          /\ config.kind = "ok" => loads <= NumThreads
          /\ \A t \in 1..NumThreads :
                /\ threads[t].pc \in {"load", "store"} => ~threads[t].started_set
                /\ threads[t].pc = "store" => threads[t].local = config.scenarios
                /\ threads[t].out.raised = ""
                       => /\ config.kind = "ok"
                          /\ threads[t].name \in DOMAIN config.scenarios
                          /\ threads[t].out.value = config.scenarios[threads[t].name]
                /\ threads[t].out.raised = "KeyError"
                       => /\ config.kind = "ok"
                          /\ threads[t].name \notin DOMAIN config.scenarios
                          /\ threads[t].out.value = DOMAIN config.scenarios)
    /\ [][SCENARIOS_CACHE # CacheUnset => SCENARIOS_CACHE' = SCENARIOS_CACHE]_vars

\* Two callers both found the cache unset and both loaded; each has its
\* answer from the complete set: one its parameters, one its KeyError.
C13_Witness ==
    /\ config.kind = "ok"
    /\ loads >= 2
    /\ \E t, u \in 1..NumThreads :
          /\ threads[t].pc = "idle" /\ threads[t].out.raised = ""
          /\ threads[u].pc = "idle" /\ threads[u].out.raised = "KeyError"
          /\ threads[u].out.value = DOMAIN config.scenarios

---------------------------------------------------------------------------
\* run_erev_analysis (checked under SpecErev)

\* The last run_erev_analysis call has ended; it has returned its table.
ErevEnded == erevCall.out.raised \notin {"pending", "not_called"}
ErevReturned == erevCall.out.raised = ""

\* The ranges and the scenarios the last call sweeps.
ErevRanges ==
    IF erevCall.args.ranges = NoBins THEN default_ranges
    ELSE erevCall.args.ranges.list
ErevScenarios ==
    IF erevCall.args.scenarios = NoBins THEN default_scenarios
    ELSE erevCall.args.scenarios.list

\* The table returned has one row per (scenario, range) pair, scenario by
\* scenario with the ranges in the given order inside each scenario.
ErevRowsMatchPairs ==
    /\ Len(erevCall.out.value) = Len(ErevScenarios) * Len(ErevRanges)
    /\ \A i \in 1..Len(ErevScenarios) : \A j \in 1..Len(ErevRanges) :
          LET row == erevCall.out.value[(i - 1) * Len(ErevRanges) + j]
          IN  row.Scenario = ErevScenarios[i] /\ row.Range_mi = ErevRanges[j]

\* C15 as claimed: a call whose scenario names are all known returns its
\* table, with exactly one row per (scenario, range) pair in sweep order.
C15_Claimed_OneRowPerPair ==
    (ErevEnded /\ \A i \in 1..Len(ErevScenarios) :
                     ErevScenarios[i] \in DOMAIN SCENARIOS)
        => (ErevReturned /\ ErevRowsMatchPairs)

\* What holds of C15: a call that returns has one row per pair in sweep
\* order, and a call with known scenario names returns unless ranges or
\* scenarios is empty, in which case it raises KeyError naming the column
\* 'CO2_saved_tons' and writes no file.
C15_OneRowPerPairUnlessEmpty ==
    /\ ErevReturned => ErevRowsMatchPairs
    /\ (ErevEnded /\ Len(ErevScenarios) * Len(ErevRanges) = 0)
           => /\ erevCall.out.raised = "KeyError"
              /\ erevCall.out.value = "CO2_saved_tons"
    /\ (ErevEnded /\ Len(ErevScenarios) * Len(ErevRanges) > 0
                  /\ \A i \in 1..Len(ErevScenarios) :
                        ErevScenarios[i] \in DOMAIN SCENARIOS)
           => ErevReturned

\* A call with an empty list of ranges and known scenario names has raised
\* KeyError instead of returning an empty table.
C15_Witness ==
    /\ erevCall.out.raised = "KeyError"
    /\ erevCall.args.ranges = Bins(<< >>)
    /\ erevCall.args.scenarios = Bins(<< "Worst", "Best" >>)

\* C16: in every row whose range is a key of the fixed table, EV_share is the
\* table value (0.84 at range 100), EV_VMT == VMT_TOTAL * EV_share and
\* Gas_VMT == VMT_TOTAL - EV_VMT.
C16_TableShare ==
    ErevReturned
        => \A i \in 1..Len(erevCall.out.value) :
              LET row == erevCall.out.value[i]
              IN  /\ row.Range_mi = Lit(25, 0) => row.EV_share = Lit(55, -2)
                  /\ row.Range_mi = Lit(50, 0) => row.EV_share = Lit(733, -3)
                  /\ row.Range_mi = Lit(75, 0) => row.EV_share = Lit(79, -2)
                  /\ row.Range_mi = Lit(100, 0) => row.EV_share = Lit(84, -2)
                  /\ row.Range_mi = Lit(125, 0) => row.EV_share = Lit(86, -2)
                  /\ row.Range_mi = Lit(150, 0) => row.EV_share = Lit(868, -3)
                  /\ row.EV_VMT = FMul(VMT_TOTAL, row.EV_share)
                  /\ row.Gas_VMT = FSub(VMT_TOTAL, row.EV_VMT)

\* run_erev_analysis(ranges=[100], scenarios=["Average"]) has returned one
\* row with EV_share 0.84.
C16_Witness ==
    /\ ErevReturned
    /\ erevCall.args.ranges = Bins(<< Lit(100, 0) >>)
    /\ erevCall.args.scenarios = Bins(<< "Average" >>)
    /\ Len(erevCall.out.value) = 1
    /\ erevCall.out.value[1].EV_share = Lit(84, -2)

\* C17 as claimed: each scenario's multipliers are applied, so that for the
\* same range CO2_saved_tons is lower in the Worst scenario than in the Best
\* scenario and Cfleet_USD is higher.
C17_Claimed_BothMultipliersApplied ==
    ErevReturned
        => \A i, j \in 1..Len(erevCall.out.value) :
              LET worst == erevCall.out.value[i]
                  best == erevCall.out.value[j]
              IN  (/\ worst.Scenario = "Worst"
                   /\ best.Scenario = "Best"
                   /\ worst.Range_mi = best.Range_mi)
                      => /\ FLt(worst.CO2_saved_tons, best.CO2_saved_tons)
                         /\ FGt(worst.Cfleet_USD, best.Cfleet_USD)

\* What holds of C17: the battery cost used is CBAT * cost_mult, so for the
\* same range > 0 Cfleet_USD is higher in Worst than in Best; grid_mult reaches
\* no output: CO2_saved_tons is computed with the base GEV and is the same
\* in every scenario.
C17_CostMultiplierOnly ==
    ErevReturned
        => \A i, j \in 1..Len(erevCall.out.value) :
              LET a == erevCall.out.value[i]
                  b == erevCall.out.value[j]
              IN  /\ a.Cfleet_USD =
                         FMul(FMul(compute_fleet_size,
                                   compute_battery_size(a.Range_mi)),
                              FMul(CBAT, SCENARIOS[a.Scenario].cost_mult))
                  /\ a.CO2_saved_tons =
                         FSub(PyDiv(FMul(GGAS, a.Gas_VMT), Lit(1, 6)),
                              PyDiv(FMul(GEV, a.EV_VMT), Lit(1, 6)))
                  /\ a.Range_mi = b.Range_mi
                         => a.CO2_saved_tons = b.CO2_saved_tons
                  /\ (/\ a.Scenario = "Worst" /\ b.Scenario = "Best"
                      /\ a.Range_mi = b.Range_mi
                      /\ FGt(a.Range_mi, Zero))
                         => FGt(a.Cfleet_USD, b.Cfleet_USD)

\* A table with a Worst row and a Best row of the same range whose
\* CO2_saved_tons are equal.
C17_Witness ==
    /\ ErevReturned
    /\ \E i, j \in 1..Len(erevCall.out.value) :
          /\ erevCall.out.value[i].Scenario = "Worst"
          /\ erevCall.out.value[j].Scenario = "Best"
          /\ erevCall.out.value[i].Range_mi = erevCall.out.value[j].Range_mi
          /\ erevCall.out.value[i].CO2_saved_tons =
                 erevCall.out.value[j].CO2_saved_tons

---------------------------------------------------------------------------
\* The two cost-per-ton definitions (checked under SpecTwoPaths)

\* C18: in run_erev_analysis $/tCO2 == (Cfleet_USD / 10) / CO2_saved_tons,
\* the fleet CAPEX spread over the 10-year battery life; in
\* compute_emissions_and_costs capex_per_ton_usd == battery_capex_usd /
\* co2_savings_tons with no amortization; neither equals what the other
\* definition would give.
C18_TwoCostPerTonDefinitions ==
    /\ ErevReturned
           => \A i \in 1..Len(erevCall.out.value) :
                 LET row == erevCall.out.value[i]
                 IN  /\ row.usd_per_tCO2 =
                            PyDiv(PyDiv(row.Cfleet_USD, Lit(10, 0)),
                                  row.CO2_saved_tons)
                     /\ row.usd_per_ton_CO2_col = row.usd_per_tCO2
                     /\ row.usd_per_tCO2 #
                            PyDiv(row.Cfleet_USD, row.CO2_saved_tons)
    /\ (EmCalled /\ FGt(emCall.result.co2_savings_tons, Zero))
           => /\ emCall.result.capex_per_ton_usd =
                     PyDiv(emCall.result.battery_capex_usd,
                           emCall.result.co2_savings_tons)
              /\ emCall.result.capex_per_ton_usd #
                     PyDiv(PyDiv(emCall.result.battery_capex_usd, Lit(10, 0)),
                           emCall.result.co2_savings_tons)

\* Both paths have produced a cost per ton: a returned table and a
\* calculator result with positive savings and a positive battery cost.
C18_Witness ==
    /\ ErevReturned
    /\ Len(erevCall.out.value) >= 1
    /\ IsNum(erevCall.out.value[1].usd_per_tCO2)
    /\ EmCalled
    /\ FGt(emCall.result.co2_savings_tons, Zero)
    /\ FGt(emCall.result.capex_per_ton_usd, Zero)
    /\ IsNum(emCall.result.capex_per_ton_usd)

---------------------------------------------------------------------------
\* Empty and zero-sum trip bins (checked under SpecLoader)

LoadEnded == loadCall.out.raised # "not_called"

\* The file is readable with all required columns, and its rows are none or
\* have share_of_trips summing to zero.
CsvEmptyOrZeroSum ==
    /\ csv_file.exists
    /\ required_cols \subseteq csv_file.columns
    /\ \/ csv_file.rows = << >>
       \/ IsZero(FSum([i \in 1..Len(csv_file.rows) |->
                          csv_file.rows[i].share_of_trips]))

\* The bins of the last compute_ev_share_for_range call are none or have
\* share_of_trips summing to zero.
ShareBinsEmptyOrZeroSum ==
    \/ shareCall.bins = << >>
    \/ IsZero(total_share_of(shareCall.bins))

\* C19 as claimed: a trip-bin collection that is empty or whose shares sum
\* to zero is an error: load_trip_bins_from_csv raises for it, and
\* compute_ev_share_for_range given such bins returns no numeric EV share.
C19_Claimed_EmptyOrZeroSumIsError ==
    /\ (LoadEnded /\ CsvEmptyOrZeroSum) => loadCall.out.raised # ""
    /\ (ShareCalled /\ ShareBinsEmptyOrZeroSum) => ~IsNum(shareCall.ev_share)

\* What holds of C19: load_trip_bins_from_csv raises ValueError for such a
\* file and returns only for rows whose shares do not sum to zero or less;
\* compute_ev_share_for_range given such bins returns the number 0.0.
C19_LoaderRaisesShareReturnsZero ==
    /\ (LoadEnded /\ CsvEmptyOrZeroSum) => loadCall.out.raised = "ValueError"
    /\ (LoadEnded /\ loadCall.out.raised = "")
           => /\ Len(loadCall.out.value) > 0
              /\ ~FLe(FSum([i \in 1..Len(csv_file.rows) |->
                               csv_file.rows[i].share_of_trips]), Zero)
    /\ (ShareCalled /\ ShareBinsEmptyOrZeroSum) => shareCall.ev_share = Zero

\* compute_ev_share_for_range(100, bins) with two bins of share 0 has
\* returned 0.0.
C19_Witness ==
    /\ ShareCalled
    /\ Len(shareCall.bins) = 2
    /\ IsZero(total_share_of(shareCall.bins))
    /\ shareCall.range_miles = D(100, 0)
    /\ shareCall.ev_share = Zero

---------------------------------------------------------------------------
\* Repeated compute_range_scenario calls (checked under SpecRepeat)

\* C20: compute_range_scenario keeps no state between calls: a call with
\* the arguments of an earlier call has the earlier call's outcome whatever
\* calls ran in between, a call with the range of an earlier call sees the
\* same default trip bins (the same base EV share), and the loaded scenario
\* parameters stay those of the configuration.
C20_NoStateBetweenCalls ==
    /\ (rsKept # NoRsCall /\ rsKept.args = rsCall.args)
           => /\ rsKept.out.raised = rsCall.out.raised
              /\ rsKept.out.value = rsCall.out.value
    /\ (rsKept # NoRsCall
            /\ rsKept.args.range_miles = rsCall.args.range_miles)
           => rsKept.locals.base_ev_share = rsCall.locals.base_ev_share
    /\ SCENARIOS_CACHE # CacheUnset => SCENARIOS_CACHE = config.scenarios

\* A call has returned the result kept from an earlier call with the same
\* arguments, the scenarios having been loaded once.
C20_Witness ==
    /\ rsKept # NoRsCall
    /\ rsKept.args = rsCall.args
    /\ rsCall.out.raised = ""
    /\ rsKept.out = rsCall.out
    /\ rsCall.args.charges_per_week = 3
    /\ loads = 1
    /\ SCENARIOS_CACHE # CacheUnset

---------------------------------------------------------------------------
\* The bins load_trip_bins_from_csv returns (checked under SpecLoader)

LoadReturned == loadCall.out.raised = ""

\* Every share_of_trips of the rows of the file is a number >= 0.
CsvSharesNonNegative ==
    \A i \in 1..Len(csv_file.rows) :
        /\ IsNum(csv_file.rows[i].share_of_trips)
        /\ FLe(Zero, csv_file.rows[i].share_of_trips)

\* The shares of the returned bins sum to 1 within one unit in the last
\* place per bin.
LoadedSharesSumToOne ==
    FLe(FAbs(FSub(total_share_of(loadCall.out.value), One)),
        FMul(D(Len(loadCall.out.value), 0), Ulp(One)))

\* C21 as claimed: every collection load_trip_bins_from_csv returns has each
\* share_of_trips in [0,1] and shares summing to 1 (here: to within
\* rounding), whatever share values the rows hold.
C21_Claimed_LoadedBinsInvariant ==
    LoadReturned
        => /\ \A i \in 1..Len(loadCall.out.value) :
                 /\ FLe(Zero, loadCall.out.value[i].share_of_trips)
                 /\ FLe(loadCall.out.value[i].share_of_trips, One)
           /\ LoadedSharesSumToOne

\* What holds of C21: each returned share is the row's share divided by the
\* sum of the rows' shares, bounds and open ends are those of the rows, and
\* when every row's share is a number >= 0 the returned shares lie in
\* [0,1] and sum to 1 within rounding.  A negative share beside a larger
\* positive one, or a blank share, is returned as a share outside [0,1].
C21_LoadedBinsRenormalised ==
    LoadReturned
        => /\ Len(loadCall.out.value) = Len(csv_file.rows)
           /\ \A i \in 1..Len(loadCall.out.value) :
                 /\ loadCall.out.value[i].share_of_trips =
                        PyDiv(csv_file.rows[i].share_of_trips,
                              FSum([j \in 1..Len(csv_file.rows) |->
                                       csv_file.rows[j].share_of_trips]))
                 /\ loadCall.out.value[i].lower =
                        csv_file.rows[i].bin_lower_miles
                 /\ loadCall.out.value[i].upper =
                        csv_file.rows[i].bin_upper_miles
           /\ CsvSharesNonNegative
                 => /\ \A i \in 1..Len(loadCall.out.value) :
                          /\ FLe(Zero, loadCall.out.value[i].share_of_trips)
                          /\ FLe(loadCall.out.value[i].share_of_trips, One)
                    /\ LoadedSharesSumToOne

\* load_trip_bins_from_csv has returned bins with shares -0.5 and 1.5.
C21_Witness ==
    /\ LoadReturned
    /\ Len(loadCall.out.value) = 2
    /\ loadCall.out.value[1].share_of_trips = D(-5, -1)
    /\ loadCall.out.value[2].share_of_trips = D(15, -1)

---------------------------------------------------------------------------
\* Bounds of a RangeScenarioResult (checked under SpecScenario)

\* C22: every RangeScenarioResult returned with annual_vmt >= 0 has
\* 0 <= ev_share <= 1, 0 <= ev_vmt <= annual_vmt and gas_vmt >= 0, also when
\* the multiplier is 1.05 and the base share is close or equal to 1.
C22_ResultWithinBounds ==
    (RsReturned /\ FLe(Zero, rsCall.args.annual_vmt))
        => /\ FLe(Zero, rsCall.out.value.ev_share)
           /\ FLe(rsCall.out.value.ev_share, One)
           /\ FLe(Zero, rsCall.out.value.ev_vmt)
           /\ FLe(rsCall.out.value.ev_vmt, rsCall.args.annual_vmt)
           /\ FLe(Zero, rsCall.out.value.gas_vmt)

\* A call with 7 charges a week whose base share times 1.05 exceeds 1 has
\* returned ev_share = 1, ev_vmt = annual_vmt > 0 and gas_vmt = 0.
C22_Witness ==
    /\ RsReturned
    /\ rsCall.args.charges_per_week = 7
    /\ FGt(FMul(rsCall.locals.base_ev_share, rsCall.locals.mult), One)
    /\ rsCall.out.value.ev_share = One
    /\ FGt(rsCall.args.annual_vmt, Zero)
    /\ rsCall.out.value.ev_vmt = rsCall.args.annual_vmt
    /\ rsCall.out.value.gas_vmt = Zero

\* C23: for range_miles >= 0, a returned result whose co2_savings_tons is
\* <= 0 has capex_per_ton_usd = +infinity; range_miles = 0 gives
\* ev_share = 0, ev_vmt = 0, gas_vmt = annual_vmt, co2_savings_tons = 0 and
\* capex_per_ton_usd = +infinity.
C23_SentinelPropagated ==
    (RsReturned /\ FLe(Zero, rsCall.args.range_miles))
        => /\ FLe(rsCall.out.value.co2_savings_tons, Zero)
                 => rsCall.out.value.capex_per_ton_usd = PosInf
           /\ rsCall.args.range_miles = Zero
                 => /\ rsCall.out.value.ev_share = Zero
                    /\ rsCall.out.value.ev_vmt = Zero
                    /\ rsCall.out.value.gas_vmt = rsCall.args.annual_vmt
                    /\ rsCall.out.value.co2_savings_tons = Zero
                    /\ rsCall.out.value.capex_per_ton_usd = PosInf

\* compute_range_scenario(0, 7, "Average", annual_vmt=13500) has returned
\* with no electric miles and an infinite cost per ton.
C23_Witness ==
    /\ RsReturned
    /\ rsCall.args.range_miles = Zero
    /\ rsCall.args.charges_per_week = 7
    /\ rsCall.args.annual_vmt = D(13500, 0)
    /\ rsCall.out.value.gas_vmt = D(13500, 0)
    /\ rsCall.out.value.capex_per_ton_usd = PosInf

---------------------------------------------------------------------------
\* Zero-distance bins and scaled shares (checked under SpecShare and SpecScaled)

\* total_vmt of the last compute_ev_share_for_range call.
ShareTotalVmt ==
    FSum([i \in 1..Len(shareCall.bins) |->
             FMul(shareCall.bins[i].share_of_trips, shareCall.distances[i])])

\* The bins of the last call without its zero-distance bins.
ShareBinsWithoutZeroDistance ==
    SelectSeq(shareCall.bins, LAMBDA b : ~IsZero(midpoint(b)))

\* C24: among bins with positive total VMT and for range_miles >= 0, a
\* zero-distance bin has its divisor floored at 1e-6, so its electric
\* fraction is the number min(1, range_miles / 1e-6); it contributes 0 to
\* the EV share, and the result equals the share computed from the
\* remaining bins alone.
C24_ZeroDistanceBinGuarded ==
    (/\ ShareCalled
     /\ FLe(Zero, shareCall.range_miles)
     /\ FGt(ShareTotalVmt, Zero)
     /\ \E i \in 1..Len(shareCall.bins) : IsZero(shareCall.distances[i]))
        => /\ \A i \in 1..Len(shareCall.bins) :
                 IsZero(shareCall.distances[i])
                     => /\ IsNum(shareCall.frac_electric_per_bin[i])
                        /\ shareCall.frac_electric_per_bin[i] =
                               NpMinimum(One, NpDiv(shareCall.range_miles,
                                                    D(1, -6)))
                        /\ FMul(shareCall.vmt_shares[i],
                                shareCall.frac_electric_per_bin[i]) = Zero
           /\ IsNum(shareCall.ev_share)
           /\ shareCall.ev_share =
                  compute_ev_share_for_range(shareCall.range_miles,
                      Bins(ShareBinsWithoutZeroDistance))

\* compute_ev_share_for_range(5, bins) with a zero-distance bin beside a bin
\* of positive distance has returned a positive share.
C24_Witness ==
    /\ ShareCalled
    /\ shareCall.range_miles = D(5, 0)
    /\ Len(shareCall.bins) = 2
    /\ IsZero(shareCall.distances[1])
    /\ FGt(shareCall.distances[2], Zero)
    /\ shareCall.frac_electric_per_bin[1] = One
    /\ FGt(shareCall.ev_share, Zero)

\* The last two compute_ev_share_for_range calls had the same range_miles,
\* and the bins of the later call are those of the earlier one with every
\* share_of_trips multiplied by k.
ScaledBy(k) ==
    /\ sharePrev # NoCall
    /\ shareCall # NoCall
    /\ shareCall.range_miles = sharePrev.range_miles
    /\ shareCall.bins = scaled_bins(sharePrev.bins, k)

\* C27 as claimed: multiplying every share_of_trips by the same k > 0 leaves
\* the returned EV share unchanged.
C27_Claimed_ScalingLeavesShareUnchanged ==
    \A k \in ScaleInputs : ScaledBy(k) => shareCall.ev_share = sharePrev.ev_share

\* C27 amended: multiplying every share_of_trips by the same k > 0 leaves
\* the returned EV share unchanged up to rounding (within two units in the
\* last place of 1.0), and exactly unchanged when k is a power of the
\* floating-point radix, for which the scaling of the shares is exact.
C27_ScalingWithinRounding ==
    \A k \in ScaleInputs :
        ScaledBy(k)
            => /\ FLe(FAbs(FSub(shareCall.ev_share, sharePrev.ev_share)),
                      FMul(D(2, 0), Ulp(One)))
               /\ k \in { D(10, 0), D(1, -2) }
                     => shareCall.ev_share = sharePrev.ev_share

\* The share of bins scaled by 7 has been computed after the share of the
\* bins themselves, for a range where both lie strictly between 0 and 1.
C27_Witness ==
    /\ ScaledBy(D(7, 0))
    /\ FGt(shareCall.ev_share, Zero)
    /\ FLt(shareCall.ev_share, One)
    /\ FGt(sharePrev.ev_share, Zero)

---------------------------------------------------------------------------
\* CO2_saved_tons and the interpolated share of run_erev_analysis (checked
\* under SpecErev)

\* The row's range lies in the default sweep, 25 to 150 miles.
InDefaultSweep(row) ==
    FLe(Lit(25, 0), row.Range_mi) /\ FLe(row.Range_mi, Lit(150, 0))

\* The CO2 avoided relative to driving all of the row's miles on gasoline.
AvoidedVsAllGasoline(row) ==
    PyDiv(FMul(FSub(GGAS, GEV), row.EV_VMT), Lit(1, 6))

\* C25 as claimed: CO2_saved_tons is the CO2 avoided relative to driving all
\* miles on gasoline, (GGAS - GEV) * EV_VMT / 1e6 (here: to within rounding);
\* it is positive for every range from 25 to 150, does not decrease as
\* EV_share increases, and $/tCO2 is positive.
C25_Claimed_SavedIsAvoidedCO2 ==
    ErevReturned
        => \A i, j \in 1..Len(erevCall.out.value) :
              LET a == erevCall.out.value[i]
                  b == erevCall.out.value[j]
              IN  /\ FLe(FAbs(FSub(a.CO2_saved_tons, AvoidedVsAllGasoline(a))),
                         FMul(Lit(4, 0), Ulp(AvoidedVsAllGasoline(a))))
                  /\ InDefaultSweep(a)
                         => /\ FGt(a.CO2_saved_tons, Zero)
                            /\ FGt(a.usd_per_tCO2, Zero)
                  /\ FLe(a.EV_share, b.EV_share)
                         => FLe(a.CO2_saved_tons, b.CO2_saved_tons)

\* What holds of C25: CO2_saved_tons is the emissions of the gasoline miles
\* minus the emissions of the electric miles of the same fleet,
\* GGAS * Gas_VMT / 1e6 - GEV * EV_VMT / 1e6; it does not increase as
\* EV_share increases, it is negative from range 75 on, and $/tCO2 has its
\* sign.
C25_SavedIsGasMinusEvEmissions ==
    ErevReturned
        => \A i, j \in 1..Len(erevCall.out.value) :
              LET a == erevCall.out.value[i]
                  b == erevCall.out.value[j]
              IN  /\ a.CO2_saved_tons =
                         FSub(PyDiv(FMul(GGAS, a.Gas_VMT), Lit(1, 6)),
                              PyDiv(FMul(GEV, a.EV_VMT), Lit(1, 6)))
                  /\ FLe(a.EV_share, b.EV_share)
                         => FLe(b.CO2_saved_tons, a.CO2_saved_tons)
                  /\ FLe(Lit(75, 0), a.Range_mi)
                         => /\ FLt(a.CO2_saved_tons, Zero)
                            /\ FLt(a.usd_per_tCO2, Zero)
                  /\ FLe(a.Range_mi, Lit(50, 0))
                         => /\ FGt(a.CO2_saved_tons, Zero)
                            /\ FLe(Zero, a.usd_per_tCO2)

\* A table with the rows of ranges 25 and 150: CO2_saved_tons is positive at
\* 25 and negative at 150, where the EV share is higher.
C25_Witness ==
    /\ ErevReturned
    /\ Len(erevCall.out.value) >= 2
    /\ erevCall.out.value[1].Range_mi = Lit(25, 0)
    /\ erevCall.out.value[2].Range_mi = Lit(150, 0)
    /\ FGt(erevCall.out.value[1].CO2_saved_tons, Zero)
    /\ FLt(erevCall.out.value[2].CO2_saved_tons, Zero)
    /\ FLt(erevCall.out.value[2].usd_per_tCO2, Zero)

\* The share the fixed table gives by linear interpolation between its
\* points lo and hi, for a range strictly between them.
TableInterpolation(range_mi, lo, hi, share_lo, share_hi) ==
    FAdd(FMul(NpDiv(FSub(share_hi, share_lo), FSub(hi, lo)), FSub(range_mi, lo)),
         share_lo)

\* The row's EV_share is what the table segment from lo to hi gives, when
\* the row's range lies inside the segment.
RowOnSegment(row, lo, hi, share_lo, share_hi) ==
    /\ row.Range_mi = lo => row.EV_share = share_lo
    /\ row.Range_mi = hi => row.EV_share = share_hi
    /\ (FLt(lo, row.Range_mi) /\ FLt(row.Range_mi, hi))
           => /\ row.EV_share =
                     TableInterpolation(row.Range_mi, lo, hi, share_lo, share_hi)
              /\ FLe(share_lo, row.EV_share)
              /\ FLe(row.EV_share, share_hi)

\* C28: EV_share, the value of compute_ev_vmt_share(range_mi), is the table
\* value at a table point, the linear interpolation of the two neighbouring
\* table points strictly between them, 0.55 for every range below 25 (range
\* 0 included) and 0.868 for every range above 150; it is non-decreasing in
\* range_mi and never 0.
C28_TableInterpolatedAndClamped ==
    ErevReturned
        => \A i, j \in 1..Len(erevCall.out.value) :
              LET a == erevCall.out.value[i]
                  b == erevCall.out.value[j]
              IN  /\ RowOnSegment(a, Lit(25, 0), Lit(50, 0), Lit(55, -2), Lit(733, -3))
                  /\ RowOnSegment(a, Lit(50, 0), Lit(75, 0), Lit(733, -3), Lit(79, -2))
                  /\ RowOnSegment(a, Lit(75, 0), Lit(100, 0), Lit(79, -2), Lit(84, -2))
                  /\ RowOnSegment(a, Lit(100, 0), Lit(125, 0), Lit(84, -2), Lit(86, -2))
                  /\ RowOnSegment(a, Lit(125, 0), Lit(150, 0), Lit(86, -2), Lit(868, -3))
                  /\ FLt(a.Range_mi, Lit(25, 0)) => a.EV_share = Lit(55, -2)
                  /\ FGt(a.Range_mi, Lit(150, 0)) => a.EV_share = Lit(868, -3)
                  /\ FLe(a.Range_mi, b.Range_mi) => FLe(a.EV_share, b.EV_share)
                  /\ FGt(a.EV_share, Zero)

\* A table with rows for ranges 0, 30, 60, 65, 140 and 160: shares 0.55 at
\* range 0, strictly between the table values at 60, and 0.868 at 160.
C28_Witness ==
    /\ ErevReturned
    /\ Len(erevCall.out.value) >= 6
    /\ erevCall.out.value[1].Range_mi = Zero
    /\ erevCall.out.value[1].EV_share = Lit(55, -2)
    /\ erevCall.out.value[3].Range_mi = Lit(60, 0)
    /\ FLt(Lit(733, -3), erevCall.out.value[3].EV_share)
    /\ FLt(erevCall.out.value[3].EV_share, Lit(79, -2))
    /\ erevCall.out.value[6].Range_mi = Lit(160, 0)
    /\ erevCall.out.value[6].EV_share = Lit(868, -3)

---------------------------------------------------------------------------
\* CO2 savings as a function of the electric miles (checked under
\* SpecEmissions)

\* The per-mile intensity difference, kg CO2 per mile: gasoline minus
\* electric.
IntensityDifference ==
    FSub(FMul(params.gas_litre_per_mile, params.gas_co2_kg_per_litre),
         FMul(params.ev_kwh_per_mile, params.grid_co2_kg_per_kwh))

\* ev_vmt * (per-mile intensity difference) / 1000 for the last call.
SavingsFromEvMiles == PyDiv(FMul(emCall.ev_vmt, IntensityDifference), D(1000, 0))

\* The rounding allowance of the subtraction in co2_savings_tons: three
\* units in the last place of co2_baseline_tons.
SavingsRounding == FMul(D(3, 0), Ulp(emCall.result.co2_baseline_tons))

\* C29 as claimed: co2_savings_tons == ev_vmt * (gas_litre_per_mile *
\* gas_co2_kg_per_litre - ev_kwh_per_mile * grid_co2_kg_per_kwh) / 1000 for
\* all inputs, and for ev_vmt > 0 its sign is the sign of the per-mile
\* intensity difference.
C29_Claimed_SavingsFromEvMilesOnly ==
    EmCalled
        => /\ emCall.result.co2_savings_tons = SavingsFromEvMiles
           /\ FGt(emCall.ev_vmt, Zero)
                 => /\ FGt(emCall.result.co2_savings_tons, Zero)
                        <=> FGt(IntensityDifference, Zero)
                    /\ FLt(emCall.result.co2_savings_tons, Zero)
                        <=> FLt(IntensityDifference, Zero)

\* C29 amended: co2_savings_tons is co2_baseline_tons - (co2_ev_tons +
\* co2_gas_tons), which equals ev_vmt * (intensity difference) / 1000 up to
\* the rounding of the subtraction, a few units in the last place of
\* co2_baseline_tons; it is exactly 0 for ev_vmt = 0, and for ev_vmt > 0 it
\* has the sign of the intensity difference whenever the product exceeds
\* that rounding.
C29_SavingsFromEvMilesWithinRounding ==
    EmCalled
        => /\ emCall.result.co2_savings_tons =
                  FSub(emCall.result.co2_baseline_tons,
                       FAdd(emCall.result.co2_ev_tons,
                            emCall.result.co2_gas_tons))
           /\ FLe(FAbs(FSub(emCall.result.co2_savings_tons, SavingsFromEvMiles)),
                  SavingsRounding)
           /\ emCall.ev_vmt = Zero => emCall.result.co2_savings_tons = Zero
           /\ FGt(SavingsFromEvMiles, SavingsRounding)
                 => FGt(emCall.result.co2_savings_tons, Zero)
           /\ FLt(SavingsFromEvMiles, FNeg(SavingsRounding))
                 => FLt(emCall.result.co2_savings_tons, Zero)

\* A call with ev_vmt > 0 and gas_vmt > 0 has returned savings that differ
\* from ev_vmt * (intensity difference) / 1000 in the last place.
C29_Witness ==
    /\ EmCalled
    /\ FGt(emCall.ev_vmt, Zero)
    /\ FGt(emCall.gas_vmt, Zero)
    /\ FGt(emCall.result.co2_savings_tons, Zero)
    /\ emCall.result.co2_savings_tons # SavingsFromEvMiles

---------------------------------------------------------------------------
\* Failing lookups and failing loads (checked under SpecCache)

\* The step changes the record of the last get_scenario_params call, or of
\* the last compute_range_scenario call.
GspChanged ==
    \/ gspCall'.out.raised # gspCall.out.raised
    \/ gspCall'.name # gspCall.name
RsChanged ==
    \/ rsCall'.out.raised # rsCall.out.raised
    \/ rsCall.out.raised # "not_called" /\ rsCall'.args # rsCall.args

\* The step is a get_scenario_params or compute_range_scenario call that
\* raised KeyError for an unknown name.
KeyErrorStep ==
    \/ GspChanged /\ gspCall'.out.raised = "KeyError"
    \/ RsChanged /\ rsCall'.out.raised = "KeyError"

\* The outcome of the last call of each kind is the one the same call has
\* in a fresh process with the same configuration.
OutcomeAsInFreshProcess ==
    /\ gspCall.out.raised = ""
           => gspCall.out.value =
                  get_scenario_params(gspCall.name, CacheUnset, config).out.value
    /\ rsCall.out.raised = ""
           => rsCall.out.value =
                  compute_range_scenario(rsCall.args.range_miles,
                                         rsCall.args.charges_per_week,
                                         rsCall.args.scenario_name,
                                         rsCall.args.annual_vmt,
                                         CacheUnset, config).out.value

\* C26 as claimed: a call that raises for an unknown name leaves the
\* scenario cache exactly as it was.
C26_Claimed_FailingLookupLeavesCache ==
    [][KeyErrorStep => SCENARIOS_CACHE' = SCENARIOS_CACHE]_vars

\* C26 amended: a call that raises for an unknown name leaves the scenario
\* cache as it was, except that a failing call that is the first to need
\* the scenarios has loaded them into the cache; it produces no
\* RangeScenarioResult (the exception carries the valid names), and every
\* call that returns afterwards returns what it returns in a process where
\* the failing call never happened.
C26_FailingLookupIsLocal ==
    /\ []OutcomeAsInFreshProcess
    /\ [][KeyErrorStep
             => /\ \/ SCENARIOS_CACHE' = SCENARIOS_CACHE
                   \/ /\ SCENARIOS_CACHE = CacheUnset
                      /\ SCENARIOS_CACHE' = config.scenarios
                /\ rsCall'.out.raised = "KeyError"
                      => rsCall'.out.value = DOMAIN config.scenarios
                /\ gspCall'.out.raised = "KeyError"
                      => gspCall'.out.value = DOMAIN config.scenarios]_vars

\* get_scenario_params has raised KeyError, the scenarios are cached from a
\* single load, and a compute_range_scenario call with a valid name has
\* returned its result.
C26_Witness ==
    /\ gspCall.out.raised = "KeyError"
    /\ SCENARIOS_CACHE = config.scenarios
    /\ loads = 1
    /\ rsCall.out.raised = ""
    /\ rsCall.args.scenario_name = "Average"

\* The step is a call that raised the loader's exception.
LoadFailedStep ==
    \/ gspCall'.out.raised \in { "FileNotFoundError", "ValueError" }
    \/ rsCall'.out.raised \in { "FileNotFoundError", "ValueError" }

\* C30: a failed configuration load is not cached: with a missing file or a
\* missing 'scenarios' key every call raises the loader's error to its
\* caller, leaves the cache unset and invokes the loader again; whatever is
\* in the cache is the scenario set of a configuration that loaded.
C30_FailedLoadNotCached ==
    [][/\ config.kind # "ok"
           => /\ LoadFailedStep
              /\ GspChanged
                    => gspCall'.out.raised =
                           load_scenario_params_from_yaml(config).raised
              /\ RsChanged
                    => rsCall'.out.raised =
                           load_scenario_params_from_yaml(config).raised
              /\ SCENARIOS_CACHE' = CacheUnset
              /\ loads' = loads + 1
       /\ SCENARIOS_CACHE' # CacheUnset
           => /\ config.kind = "ok"
              /\ SCENARIOS_CACHE' = config.scenarios]_vars

\* With no configuration file, get_scenario_params has raised
\* FileNotFoundError, the loader has been invoked three times and the cache
\* is still unset.
C30_Witness ==
    /\ config.kind = "missing"
    /\ gspCall.out.raised = "FileNotFoundError"
    /\ loads = 3
    /\ SCENARIOS_CACHE = CacheUnset

============================================================================
